---- MODULE Spec2Model ----
(***************************************************************************)
(* A model of sisyphus' remote host session (src/src/sisyphus/host.py):    *)
(* one invocation that constructs a Host and then calls its operations,    *)
(* the remote filesystem below the top directory, the channel to the       *)
(* remote host, and the background job that build() launches.  Every       *)
(* remote command round trip is one step, so the job and the transport     *)
(* can interleave with the invocation between any two commands.            *)
(***************************************************************************)
EXTENDS Naturals, Sequences, FiniteSets, TLC

\* ------------------------------------------------------------ constants
LINUX_TYPE == "linux"
WINDOWS_TYPE == "windows"
LINUX_USER == "ec2-user"
WINDOWS_USER == "dev-admin"
LINUX_TOPDIR == "/tmp"
WINDOWS_TOPDIR == "\\tmp"

\* The package the invocation is about (the -P argument).
package == "pkg"

\* How many status reads of one wait() the model counts before the counter
\* saturates (the loop itself is never cut).
MaxPolls == 2

\* ---------------------------------------------------------------- paths
\* A remote path is the tuple of its segments below the top directory.
sisyphus_dir == <<"sisyphus">>
workdir == <<"sisyphus", package>>
builddir == workdir \o <<"build">>
logfile == workdir \o <<"build.log">>
readyfile == workdir \o <<"build.ready">>
failedfile == workdir \o <<"build.failed">>

DirPaths == {sisyphus_dir, workdir, builddir}
Markers == {logfile, readyfile, failedfile}
Paths == DirPaths \cup Markers
Kinds == {"none", "file", "dir"}

Name(p) == p[Len(p)]
IsBelow(p, q) == Len(q) < Len(p) /\ SubSeq(p, 1, Len(q)) = q
Ancestors(p) == {q \in Paths : IsBelow(p, q)}
Children(f, p) == {q \in Paths : Len(q) = Len(p) + 1 /\ IsBelow(q, p) /\ f[q] # "none"}

\* The text of a path, as a command prints it back.
RECURSIVE PathText(_, _)
PathText(sep, p) == IF p = <<>> THEN "" ELSE PathText(sep, SubSeq(p, 1, Len(p) - 1)) \o sep \o Name(p)

\* A filesystem: nothing exists below something that is not a directory.
WellFormed(f) ==
    /\ \A p \in Paths : f[p] # "none" => \A q \in Ancestors(p) : f[q] = "dir"
    /\ \A p \in Markers : f[p] # "dir"

VARIABLES
    endpoint,       \* which probes the remote endpoint answers
    self,           \* the Host object's attributes
    constructed,    \* Host.__init__ has returned
    connection,     \* self.connection: "none", "open", "dead" (died silently), "closed"
    fs,             \* the remote filesystem: path -> kind
    job_pc,         \* the launched background command line's position
    pc,             \* the invocation's position
    op,             \* the operation in progress (or the last one, when pc = "idle")
    mk_path,        \* mkdir's argument
    ret,            \* where mkdir returns to
    cmds,           \* the kinds of remote command / channel step issued by the current operation
    files,          \* the listing status() last read
    status,         \* what status() last returned
    wait_result,    \* what wait() last returned
    polls,          \* status reads of the current wait(), saturating at MaxPolls
    fatal,          \* why the invocation ended in a fatal exit
    clean_launch,   \* the job was launched into a directory without markers
    ready_at_call,  \* build.ready was present when wait() was called
    mk_made,        \* the paths a mkdir() call has created
    rm_path,        \* rm's argument
    pj,             \* path_join: the separator, the segments and the results of its calls
    dl,             \* download/transmute: the artifact directory, the transport tar, the local side
    wb,             \* watch_build: the log, lines_read and what has been emitted
    chan,           \* the fabric.Connection objects: the current one's target and history
    pp,             \* prepare/watch_prepare: the environment, the background installs, their markers
    second          \* a second invocation of prepare_and_build for the package, and its job

vars == <<endpoint, self, constructed, connection, fs, job_pc, pc, op, mk_path, ret,
          cmds, files, status, wait_result, polls, fatal, clean_launch, ready_at_call,
          mk_made, rm_path, pj, dl, wb, chan, pp, second>>

\* The state of the operations an invocation is not running.
ext == <<rm_path, pj, dl, wb, pp, second>>

\* ----------------------------------------------------- Host attributes
\* The address the invocation is given (the -H argument).
host == "build-host"

\* __init__ before detection: only self.host is set.
NoHost == [host |-> host, type |-> "unset", user |-> "unset", separator |-> "unset",
           topdir |-> "unset", touch |-> "unset", cat |-> "unset", pkgdir |-> "unset"]

\* A mutant of HostAttrs: the Windows branch keeps the Linux separator.
HostAttrsSlash(t) ==
    IF t = LINUX_TYPE
    THEN [host |-> host, type |-> LINUX_TYPE, user |-> LINUX_USER, separator |-> "/",
          topdir |-> LINUX_TOPDIR, touch |-> "touch", cat |-> "cat", pkgdir |-> "linux-64"]
    ELSE [host |-> host, type |-> WINDOWS_TYPE, user |-> WINDOWS_USER, separator |-> "/",
          topdir |-> WINDOWS_TOPDIR, touch |-> "copy nul", cat |-> "type", pkgdir |-> "win-64"]

\* The attributes __init__ sets for a detected type.
HostAttrs(t) ==
    IF t = LINUX_TYPE
    THEN [host |-> host, type |-> LINUX_TYPE, user |-> LINUX_USER, separator |-> "/",
          topdir |-> LINUX_TOPDIR, touch |-> "touch", cat |-> "cat", pkgdir |-> "linux-64"]
    ELSE [host |-> host, type |-> WINDOWS_TYPE, user |-> WINDOWS_USER, separator |-> "\\",
          topdir |-> WINDOWS_TOPDIR, touch |-> "copy nul", cat |-> "type", pkgdir |-> "win-64"]

\* -------------------------------------------------------- the channel
\* No fabric.Connection has been made yet.
NoChannel == [user |-> "none", host |-> "none", open |-> 0, slept |-> FALSE, async |-> {}]

\* fabric.Connection(user=user, connect_timeout=10, host=h): one more
\* channel, to user at h, on which nothing has run.
Connection(c, user, h) ==
    [user |-> user, host |-> h, open |-> c.open + 1, slept |-> FALSE, async |-> {}]

\* self.connection.close().
Close(c) == [c EXCEPT !.open = @ - 1]

\* time.sleep(wait) with the current channel in state conn: a channel
\* that is not closed has been open across the sleep.
Sleep(c, conn) == [c EXCEPT !.slept = @ \/ conn # "closed"]

\* reset_connection() in one step.
reset_connection(c) == Connection(Close(c), self.user, self.host)

\* run_async(cmd): the command line named job is left running on the channel.
run_async(c, job) == [c EXCEPT !.async = @ \cup {job}]

\* ------------------------------------------- remote command semantics
\* exists(): "if [[ -e 'p' ]]; then echo Yes; fi" / 'if exist "p" echo Yes'.
ExistsCmd(t, f, p) ==
    IF t = LINUX_TYPE
    THEN (IF f[p] # "none" THEN "Yes" ELSE "")
    ELSE (IF f[p] # "none" THEN "Yes" ELSE "")

\* isdir(): "if [[ -d 'p' ]]; then echo Yes; fi" / 'if exist "p\*" echo Yes'.
IsdirCmd(t, f, p) ==
    IF t = LINUX_TYPE
    THEN (IF f[p] = "dir" THEN "Yes" ELSE "")
    ELSE (IF f[p] = "dir" THEN "Yes" ELSE "")

\* The filesystem with p and every missing ancestor of p made a directory.
MadeDirs(f, p) == [q \in DOMAIN f |-> IF q = p \/ q \in Ancestors(p) THEN "dir" ELSE f[q]]

\* mkdir's create command: "mkdir -p p" / 'mkdir "p"' (cmd creates the
\* intermediate directories too, and fails on a path that exists).
MkdirCmd(t, f, p) ==
    IF \E q \in Ancestors(p) : f[q] = "file" THEN [ok |-> FALSE, fs |-> f]
    ELSE IF f[p] = "file" THEN [ok |-> FALSE, fs |-> f]
    ELSE IF f[p] = "dir" THEN [ok |-> (t = LINUX_TYPE), fs |-> f]
    ELSE [ok |-> TRUE, fs |-> MadeDirs(f, p)]

\* ls(): "ls -1A p" / 'dir /b "p"': the possible outcomes, each the lines
\* of the output or a failure.  A missing path fails; a file is listed as
\* itself; cmd's dir reports "File Not Found" for an empty directory (both
\* exit codes are kept as possible).
LsCmd(t, f, p) ==
    IF f[p] = "none" THEN {[ok |-> FALSE, lines |-> {}]}
    ELSE IF f[p] = "file"
         THEN {[ok |-> TRUE, lines |-> {IF t = LINUX_TYPE THEN LINUX_TOPDIR \o PathText("/", p) ELSE Name(p)}]}
    ELSE IF t = WINDOWS_TYPE /\ Children(f, p) = {}
         THEN {[ok |-> FALSE, lines |-> {}], [ok |-> TRUE, lines |-> {}]}
    ELSE {[ok |-> TRUE, lines |-> {Name(q) : q \in Children(f, p)}]}

\* -------------------------------------------------------------- Init
\* No path_join call, no download, no watch and no prepare has taken place.
NoJoin == [step |-> "none"]
NoDownload == [step |-> "none"]
NoWatch == [step |-> "none"]
NoPrepare == [step |-> "none"]

\* No second invocation has been started.
NoSecond == [pc |-> "none", job |-> "none"]

Init ==
    /\ endpoint \in [posix : BOOLEAN, windows : BOOLEAN]
    /\ self = NoHost
    /\ constructed = FALSE
    /\ connection = "none"
    /\ fs \in {f \in [Paths -> Kinds] : WellFormed(f)}
    /\ job_pc = "none"
    /\ pc = "init"
    /\ op = "init"
    /\ mk_path = <<>>
    /\ ret = "none"
    /\ cmds = {}
    /\ files = {}
    /\ status = "none"
    /\ wait_result = "none"
    /\ polls = 0
    /\ fatal = "none"
    /\ clean_launch = FALSE
    /\ ready_at_call = FALSE
    /\ mk_made = {}
    /\ rm_path = <<>>
    /\ pj = NoJoin
    /\ dl = NoDownload
    /\ wb = NoWatch
    /\ chan = NoChannel
    /\ pp = NoPrepare
    /\ second = NoSecond

\* Variables only the operations' bookkeeping touches.
Results == <<files, status, wait_result, polls, ready_at_call>>

\* run() on a channel that has died: the exception is logged and the
\* invocation exits (no caller of the model's operations passes quiet).
Exit(cause) ==
    /\ pc' = "exit"
    /\ fatal' = cause

\* ------------------------------------------------ Host.__init__
\* A mutant of TestLinux: the channel of a failed POSIX probe is not closed.
TestLinuxLeavesOpen ==
    /\ pc = "init"
    /\ cmds' = cmds \cup {"uname"}
    /\ IF endpoint.posix
       THEN /\ connection' = "open"
            /\ chan' = Connection(chan, LINUX_USER, self.host)
            /\ self' = HostAttrs(LINUX_TYPE)
            /\ pc' = "conda_init"
       ELSE /\ connection' = "open"
            /\ chan' = Connection(chan, LINUX_USER, self.host)
            /\ self' = self
            /\ pc' = "test_windows"
    /\ UNCHANGED <<ext, endpoint, constructed, fs, job_pc, op, mk_path, ret, Results, fatal,
                   clean_launch, mk_made>>

\* __test_connection(LINUX_USER, "uname -a", LINUX_TYPE) and the branch on it.
TestLinux ==
    /\ pc = "init"
    /\ cmds' = cmds \cup {"uname"}
    /\ IF endpoint.posix
       THEN /\ connection' = "open"
            /\ chan' = Connection(chan, LINUX_USER, self.host)
            /\ self' = HostAttrs(LINUX_TYPE)
            /\ pc' = "conda_init"
       ELSE /\ connection' = "closed"
            /\ chan' = Close(Connection(chan, LINUX_USER, self.host))
            /\ self' = self
            /\ pc' = "test_windows"
    /\ UNCHANGED <<ext, endpoint, constructed, fs, job_pc, op, mk_path, ret, Results, fatal,
                   clean_launch, mk_made>>

\* __test_connection(WINDOWS_USER, "ver", WINDOWS_TYPE) and the branches on it.
TestWindows ==
    /\ pc = "test_windows"
    /\ cmds' = cmds \cup {"ver"}
    /\ IF endpoint.windows
       THEN /\ connection' = "open"
            /\ chan' = Connection(chan, WINDOWS_USER, self.host)
            /\ self' = HostAttrs(WINDOWS_TYPE)
            /\ pc' = "conda_init"
            /\ fatal' = fatal
       ELSE /\ connection' = "closed"
            /\ chan' = Close(Connection(chan, WINDOWS_USER, self.host))
            /\ self' = self
            /\ Exit("detect")
    /\ UNCHANGED <<ext, endpoint, constructed, fs, job_pc, op, mk_path, ret, Results,
                   clean_launch, mk_made>>

\* self.run("conda init"), then self.mkdir(self.sisyphus_dir) is entered.
CondaInit ==
    /\ pc = "conda_init"
    /\ cmds' = cmds \cup {"conda init"}
    /\ \/ /\ connection = "open"
          /\ \E ok \in BOOLEAN :
                IF ok
                THEN /\ pc' = "mk_exists"
                     /\ mk_path' = sisyphus_dir
                     /\ ret' = "constructed"
                     /\ fatal' = fatal
                ELSE /\ Exit("command")
                     /\ UNCHANGED <<mk_path, ret>>
       \/ /\ connection = "dead"
          /\ Exit("transport")
          /\ UNCHANGED <<mk_path, ret>>
    /\ UNCHANGED <<ext, chan, endpoint, self, constructed, connection, fs, job_pc, op, Results,
                   clean_launch, mk_made>>

\* ------------------------------------------------------- Host.mkdir
\* A mutant of MkdirAfterExists: the existence check is ignored.
MkdirAlwaysCreates(r) == "mk_create"

\* mkdir(): "if self.exists(path)": on to isdir(), or on to the create command.
MkdirAfterExists(r) == IF r = "Yes" THEN "mk_isdir" ELSE "mk_create"

\* A mutant of MkdirAfterIsdir: an existing file falls through to the create command.
MkdirFallsThrough(r) == IF r = "Yes" THEN "return" ELSE "mk_create"

\* mkdir(): "if self.isdir(path)": return, or the fatal exit on an existing file.
MkdirAfterIsdir(r) == IF r = "Yes" THEN "return" ELSE "exit"

\* mkdir() returns to its caller; __init__ ends with it.
Return ==
    /\ pc' = (IF ret = "constructed" THEN "idle" ELSE ret)
    /\ constructed' = (constructed \/ ret = "constructed")

\* self.exists(path) in mkdir().
MkExists ==
    /\ pc = "mk_exists"
    /\ cmds' = cmds \cup {"exists"}
    /\ \/ /\ connection = "open"
          /\ pc' = MkdirAfterExists(ExistsCmd(self.type, fs, mk_path))
          /\ fatal' = fatal
       \/ /\ connection = "dead"
          /\ Exit("transport")
    /\ UNCHANGED <<ext, chan, endpoint, self, constructed, connection, fs, job_pc, op, mk_path, ret,
                   Results, clean_launch, mk_made>>

\* self.isdir(path) in mkdir(), and the return or the fatal exit after it.
MkIsdir ==
    /\ pc = "mk_isdir"
    /\ cmds' = cmds \cup {"isdir"}
    /\ \/ /\ connection = "open"
          /\ LET next == MkdirAfterIsdir(IsdirCmd(self.type, fs, mk_path)) IN
                CASE next = "return" -> Return /\ fatal' = fatal
                  [] next = "exit" -> Exit("mkdir") /\ UNCHANGED constructed
                  [] OTHER -> pc' = next /\ UNCHANGED <<constructed, fatal>>
       \/ /\ connection = "dead"
          /\ Exit("transport")
          /\ UNCHANGED constructed
    /\ UNCHANGED <<ext, chan, endpoint, self, connection, fs, job_pc, op, mk_path, ret, Results,
                   clean_launch, mk_made>>

\* The create command of mkdir(), and the return after it.
MkCreate ==
    /\ pc = "mk_create"
    /\ cmds' = cmds \cup {"mkdir"}
    /\ \/ /\ connection = "open"
          /\ LET o == MkdirCmd(self.type, fs, mk_path) IN
                IF o.ok
                THEN fs' = o.fs /\ mk_made' = mk_made \cup {mk_path} /\ Return /\ fatal' = fatal
                ELSE fs' = fs /\ Exit("command") /\ UNCHANGED <<constructed, mk_made>>
       \/ /\ connection = "dead"
          /\ Exit("transport")
          /\ UNCHANGED <<fs, constructed, mk_made>>
    /\ UNCHANGED <<ext, chan, endpoint, self, connection, job_pc, op, mk_path, ret, Results,
                   clean_launch>>

\* A caller other than __init__ and build() enters mkdir(): prepare() on
\* the sisyphus directory, untar() on its destination.
CallMkdir ==
    /\ pc = "idle"
    /\ \E p \in DirPaths : mk_path' = p
    /\ op' = "mkdir"
    /\ pc' = "mk_exists"
    /\ ret' = "idle"
    /\ cmds' = {}
    /\ UNCHANGED <<ext, chan, endpoint, self, constructed, connection, fs, job_pc, Results, fatal,
                   clean_launch, mk_made>>

\* ------------------------------------------------------- Host.status
\* A mutant of StatusOf: build.failed is looked for before build.ready.
StatusFailedFirst(listing) ==
    IF "build.failed" \in listing THEN "Failed"
    ELSE IF "build.ready" \in listing THEN "Complete"
    ELSE IF "build.log" \in listing THEN "Building"
    ELSE "Not started"

\* status(): the status for a listing of the package directory.
StatusOf(listing) ==
    IF "build.ready" \in listing THEN "Complete"
    ELSE IF "build.failed" \in listing THEN "Failed"
    ELSE IF "build.log" \in listing THEN "Building"
    ELSE "Not started"

CallStatus ==
    /\ pc = "idle"
    /\ op' = "status"
    /\ pc' = "st_ls"
    /\ cmds' = {}
    /\ UNCHANGED <<ext, chan, endpoint, self, constructed, connection, fs, job_pc, mk_path, ret,
                   Results, fatal, clean_launch, mk_made>>

\* status(package): self.ls(self.path(package)) and the status it returns.
StatusLs ==
    /\ pc = "st_ls"
    /\ cmds' = cmds \cup {"ls"}
    /\ \/ /\ connection = "open"
          /\ \E o \in LsCmd(self.type, fs, workdir) :
                IF o.ok
                THEN /\ files' = o.lines
                     /\ status' = StatusOf(o.lines)
                     /\ pc' = "idle"
                     /\ fatal' = fatal
                ELSE /\ Exit("command")
                     /\ UNCHANGED <<files, status>>
       \/ /\ connection = "dead"
          /\ Exit("transport")
          /\ UNCHANGED <<files, status>>
    /\ UNCHANGED <<ext, chan, endpoint, self, constructed, connection, fs, job_pc, op, mk_path, ret,
                   wait_result, polls, ready_at_call, clean_launch, mk_made>>

\* --------------------------------------------------------- Host.wait
\* A mutant of WaitEntry: the loop sleeps before its first status read.
WaitSleepsFirst == "w_close"

\* wait(): the loop starts with a status read.
WaitEntry == "w_status"

\* A mutant of WaitNext: a failed build raises, as watch_build() does.
WaitRaisesOnFailed(st) ==
    IF st = "Complete" THEN "True"
    ELSE IF st = "Failed" THEN "raise"
    ELSE "poll"

\* A mutant of WaitNext: the loop gives up after MaxPolls status reads.
WaitTimesOut(st) ==
    IF st = "Complete" THEN "True"
    ELSE IF st = "Failed" \/ polls >= MaxPolls - 1 THEN "False"
    ELSE "poll"

\* wait(): what the loop does with a status: return True, return False,
\* or reset the connection and read again.
WaitNext(st) ==
    IF st = "Complete" THEN "True"
    ELSE IF st = "Failed" THEN "False"
    ELSE "poll"

CallWait ==
    /\ pc = "idle"
    /\ op' = "wait"
    /\ pc' = WaitEntry
    /\ cmds' = {}
    /\ polls' = 0
    /\ wait_result' = "none"
    /\ ready_at_call' = (fs[readyfile] = "file")
    /\ UNCHANGED <<ext, chan, endpoint, self, constructed, connection, fs, job_pc, mk_path, ret,
                   files, status, fatal, clean_launch, mk_made>>

\* One turn of wait()'s loop: status(package) and the branches on it.
WaitStatus ==
    /\ pc = "w_status"
    /\ cmds' = cmds \cup {"ls"}
    /\ \/ /\ connection = "open"
          /\ \E o \in LsCmd(self.type, fs, workdir) :
                IF o.ok
                THEN /\ files' = o.lines
                     /\ status' = StatusOf(o.lines)
                     /\ polls' = (IF polls < MaxPolls THEN polls + 1 ELSE polls)
                     /\ LET next == WaitNext(StatusOf(o.lines)) IN
                          CASE next = "poll" ->
                                  pc' = "w_close" /\ UNCHANGED <<wait_result, fatal>>
                            [] next = "raise" ->
                                  Exit("build_failed") /\ UNCHANGED wait_result
                            [] OTHER ->
                                  pc' = "idle" /\ wait_result' = next /\ fatal' = fatal
                ELSE /\ Exit("command")
                     /\ UNCHANGED <<files, status, polls, wait_result>>
       \/ /\ connection = "dead"
          /\ Exit("transport")
          /\ UNCHANGED <<files, status, polls, wait_result>>
    /\ UNCHANGED <<ext, chan, endpoint, self, constructed, connection, fs, job_pc, op, mk_path, ret,
                   ready_at_call, clean_launch, mk_made>>

\* Where a polling loop goes on after its reset_connection(wait).
AfterReset ==
    CASE op = "wait" -> "w_status"
      [] op = "watch" -> "wb_read"
      [] OTHER -> pp.step

\* A mutant of ResetClose: the channel is left open when the loop goes to sleep.
ResetKeepsOpen ==
    /\ pc = "w_close"
    /\ connection' = connection
    /\ chan' = chan
    /\ cmds' = cmds \cup {"close"}
    /\ pc' = "w_sleep"
    /\ UNCHANGED <<ext, endpoint, self, constructed, fs, job_pc, op, mk_path, ret, Results,
                   fatal, clean_launch, mk_made>>

\* reset_connection(wait) of a polling loop: self.connection.close().
ResetClose ==
    /\ pc = "w_close"
    /\ connection' = "closed"
    /\ chan' = Close(chan)
    /\ cmds' = cmds \cup {"close"}
    /\ pc' = "w_sleep"
    /\ UNCHANGED <<ext, endpoint, self, constructed, fs, job_pc, op, mk_path, ret, Results,
                   fatal, clean_launch, mk_made>>

\* reset_connection(wait) of a polling loop: time.sleep(wait).
ResetSleep ==
    /\ pc = "w_sleep"
    /\ cmds' = cmds \cup {"sleep"}
    /\ chan' = Sleep(chan, connection)
    /\ pc' = "w_open"
    /\ UNCHANGED <<ext, endpoint, self, constructed, connection, fs, job_pc, op, mk_path, ret,
                   Results, fatal, clean_launch, mk_made>>

\* A mutant of ResetOpen: the new channel is opened for the Linux login.
ResetOpenAsLinux ==
    /\ pc = "w_open"
    /\ connection' = "open"
    /\ chan' = Connection(chan, LINUX_USER, self.host)
    /\ cmds' = cmds \cup {"open"}
    /\ pc' = AfterReset
    /\ UNCHANGED <<ext, endpoint, self, constructed, fs, job_pc, op, mk_path, ret, Results,
                   fatal, clean_launch, mk_made>>

\* reset_connection(wait) of a polling loop: the new fabric.Connection.
ResetOpen ==
    /\ pc = "w_open"
    /\ connection' = "open"
    /\ chan' = Connection(chan, self.user, self.host)
    /\ cmds' = cmds \cup {"open"}
    /\ pc' = AfterReset
    /\ UNCHANGED <<ext, endpoint, self, constructed, fs, job_pc, op, mk_path, ret, Results,
                   fatal, clean_launch, mk_made>>

\* -------------------------------------------------------- Host.build
\* build(workdir) is entered: self.mkdir(builddir) comes first.  The model
\* follows one launched job.
CallBuild ==
    /\ pc = "idle"
    /\ job_pc = "none"
    /\ op' = "build"
    /\ mk_path' = builddir
    /\ ret' = "b_launch"
    /\ pc' = "mk_exists"
    /\ cmds' = {}
    /\ UNCHANGED <<ext, chan, endpoint, self, constructed, connection, fs, job_pc, Results, fatal,
                   clean_launch, mk_made>>

\* build(): self.run_async(...), which does not wait for the command line.
BuildLaunch ==
    /\ pc = "b_launch"
    /\ cmds' = cmds \cup {"run_async"}
    /\ \/ /\ connection = "open"
          /\ job_pc' = "activate"
          /\ chan' = run_async(chan, "build")
          /\ clean_launch' = (\A m \in Markers : fs[m] = "none")
          /\ pc' = "idle"
          /\ fatal' = fatal
       \/ /\ connection = "dead"
          /\ Exit("transport")
          /\ UNCHANGED <<job_pc, clean_launch, chan>>
    /\ UNCHANGED <<ext, endpoint, self, constructed, connection, fs, op, mk_path, ret, Results,
                   mk_made>>

\* ------------------------------------------- the launched command line
\* A mutant of JobNext: "|| touch failed && touch ready" for "&& touch ready || touch failed".
JobNextSwapped(step, ok) ==
    CASE step = "activate" -> IF ok THEN "redirect" ELSE "touch_failed"
      [] step = "redirect" -> IF ok THEN "payload" ELSE "touch_failed"
      [] step = "payload" -> IF ok THEN "touch_ready" ELSE "touch_failed"
      [] step = "touch_failed" -> IF ok THEN "touch_ready" ELSE "done"
      [] step = "touch_ready" -> "done"

\* The shell's evaluation of
\*   ACTIVATE cmd > logfile 2>&1 && touch ready || touch failed
\* that is ((conda activate && conda build > logfile) && touch ready) || touch failed:
\* the step that follows a step that succeeded or failed.
JobNext(step, ok) ==
    CASE step = "activate" -> IF ok THEN "redirect" ELSE "touch_failed"
      [] step = "redirect" -> IF ok THEN "payload" ELSE "touch_failed"
      [] step = "payload" -> IF ok THEN "touch_ready" ELSE "touch_failed"
      [] step = "touch_ready" -> IF ok THEN "done" ELSE "touch_failed"
      [] step = "touch_failed" -> "done"

\* A file of the job directory can be created when the directory is there.
CanCreate(f, p) == f[workdir] = "dir" /\ f[p] # "dir"

\* "conda activate sisyphus" succeeds or fails.
JobActivate ==
    /\ job_pc = "activate"
    /\ \E ok \in BOOLEAN : job_pc' = JobNext("activate", ok)
    /\ UNCHANGED <<ext, chan, endpoint, self, constructed, connection, fs, pc, op, mk_path, ret,
                   cmds, Results, fatal, clean_launch, mk_made>>

\* The shell opens "> logfile 2>&1" for the build command, which creates the log.
JobRedirect ==
    /\ job_pc = "redirect"
    /\ IF CanCreate(fs, logfile)
       THEN fs' = [fs EXCEPT ![logfile] = "file"] /\ job_pc' = JobNext("redirect", TRUE)
       ELSE fs' = fs /\ job_pc' = JobNext("redirect", FALSE)
    /\ UNCHANGED <<ext, chan, endpoint, self, constructed, connection, pc, op, mk_path, ret,
                   cmds, Results, fatal, clean_launch, mk_made>>

\* "conda build" ends, with success or not.
JobPayload ==
    /\ job_pc = "payload"
    /\ \E ok \in BOOLEAN : job_pc' = JobNext("payload", ok)
    /\ UNCHANGED <<ext, chan, endpoint, self, constructed, connection, fs, pc, op, mk_path, ret,
                   cmds, Results, fatal, clean_launch, mk_made>>

\* "touch build.ready" creates the sentinel, or fails and creates nothing.
JobTouchReady ==
    /\ job_pc = "touch_ready"
    /\ \E ok \in {b \in BOOLEAN : b => CanCreate(fs, readyfile)} :
          /\ fs' = (IF ok THEN [fs EXCEPT ![readyfile] = "file"] ELSE fs)
          /\ job_pc' = JobNext("touch_ready", ok)
    /\ UNCHANGED <<ext, chan, endpoint, self, constructed, connection, pc, op, mk_path, ret,
                   cmds, Results, fatal, clean_launch, mk_made>>

\* "touch build.failed" creates the sentinel, or fails and creates nothing.
JobTouchFailed ==
    /\ job_pc = "touch_failed"
    /\ \E ok \in {b \in BOOLEAN : b => CanCreate(fs, failedfile)} :
          /\ fs' = (IF ok THEN [fs EXCEPT ![failedfile] = "file"] ELSE fs)
          /\ job_pc' = JobNext("touch_failed", ok)
    /\ UNCHANGED <<ext, chan, endpoint, self, constructed, connection, pc, op, mk_path, ret,
                   cmds, Results, fatal, clean_launch, mk_made>>

\* ------------------------------------------------------ the transport
\* The channel dies silently; only the next command on it notices.
TransportDies ==
    /\ connection = "open"
    /\ pc # "exit"
    /\ connection' = "dead"
    /\ UNCHANGED <<ext, chan, endpoint, self, constructed, fs, job_pc, pc, op, mk_path, ret,
                   cmds, Results, fatal, clean_launch, mk_made>>

\* ------------------------------------------------------ specification
Construct == TestLinux \/ TestWindows \/ CondaInit
Mkdir == MkExists \/ MkIsdir \/ MkCreate
Reset == ResetClose \/ ResetSleep \/ ResetOpen
Wait == WaitStatus \/ Reset
Calls == CallMkdir \/ CallStatus \/ CallWait \/ CallBuild
Invocation == Construct \/ Mkdir \/ Calls \/ StatusLs \/ Wait \/ BuildLaunch
Job == JobActivate \/ JobRedirect \/ JobPayload \/ JobTouchReady \/ JobTouchFailed
Next == Invocation \/ Job \/ TransportDies

Spec == Init /\ [][Next]_vars

\* The invocation is a running process: it takes its next step.  Nothing
\* is assumed of the job or of the transport.
FairSpec == Spec /\ WF_vars(Invocation)

\* ------------------------------------------------------------- claims
HasLog == "build.log" \in files
HasReady == "build.ready" \in files
HasFailed == "build.failed" \in files

\* C1: the status status() returns is decided by which of build.log,
\* build.ready and build.failed are in the listing it read, for all eight
\* combinations: build.ready -> Complete; else build.failed -> Failed;
\* else build.log -> Building; else Not started.
C1_StatusPrecedence ==
    status # "none" =>
        /\ (HasReady => status = "Complete")
        /\ (HasFailed /\ ~HasReady => status = "Failed")
        /\ (HasLog /\ ~HasReady /\ ~HasFailed => status = "Building")
        /\ (~HasLog /\ ~HasReady /\ ~HasFailed => status = "Not started")

\* status() has returned on a listing that holds both sentinels.
C1_Witness ==
    /\ op = "status" /\ pc = "idle"
    /\ HasReady /\ HasFailed /\ HasLog
    /\ status = "Complete"

\* C2: for a job launched by build() into a job directory without markers,
\* in every state: build.ready and build.failed are never both present,
\* and build.log is present whenever one of them is.
C2_SentinelsImplyLog ==
    clean_launch =>
        /\ ~(fs[readyfile] = "file" /\ fs[failedfile] = "file")
        /\ (fs[readyfile] = "file" \/ fs[failedfile] = "file" => fs[logfile] = "file")

\* C3: status(package) for a package with no job directory on the host
\* returns Not started and does not end the invocation (the channel being
\* alive).
C3_NoPriorStateIsNotStarted ==
    (op = "status" /\ pc \in {"idle", "exit"} /\ fs[workdir] = "none" /\ fatal # "transport")
        => (pc = "idle" /\ status = "Not started")

\* C4: wait() returns only on a terminal status: True exactly on Complete,
\* False exactly on Failed; and the only fatal exits of wait() and status()
\* are run()'s (a dead channel, or a listing command that failed, which is
\* never the case because build.failed is there).
C4_WaitReturnsOutcome ==
    /\ (op = "wait" /\ pc = "idle") =>
          /\ status \in {"Complete", "Failed"}
          /\ (wait_result = "True" <=> status = "Complete")
          /\ (wait_result = "False" <=> status = "Failed")
    /\ (op = "wait" /\ pc \notin {"idle", "exit"}) => wait_result = "none"
    /\ (op \in {"wait", "status"} /\ pc = "exit") =>
          /\ fatal \in {"transport", "command"}
          /\ (fatal = "command" => fs[failedfile] = "none")

\* wait() has polled, then read Failed and returned False.
C4_Witness ==
    /\ op = "wait" /\ pc = "idle"
    /\ wait_result = "False" /\ status = "Failed"
    /\ "sleep" \in cmds
    /\ fatal = "none"

InWait == op = "wait" /\ pc \in {"w_status", "w_close", "w_sleep", "w_open"}
WaitReturned == op = "wait" /\ pc = "idle"
Terminal == fs[readyfile] = "file" \/ fs[failedfile] = "file"

\* C5: wait() has no timeout.  It returns only when a terminal sentinel is
\* there; once one is there it does return (unless the channel dies); and
\* while none is there every status read is followed by a sleep and every
\* sleep by another status read, without end.
C5_WaitHasNoTimeout ==
    /\ [](WaitReturned => Terminal)
    /\ ((InWait /\ Terminal) ~> (WaitReturned \/ fatal = "transport"))
    /\ ((InWait /\ pc = "w_status" /\ ~Terminal) ~> (pc = "w_sleep" \/ Terminal \/ pc = "exit"))
    /\ ((InWait /\ pc = "w_sleep") ~> (pc = "w_status"))

\* wait() has returned after as many status reads as the model counts.
C5_Witness ==
    /\ WaitReturned
    /\ polls = MaxPolls
    /\ "sleep" \in cmds

\* C6: when build.ready is present at the call, wait() returns True after
\* its first status read: no sleep, no channel close or reopen.
C6_ReadyAtCallReturnsAtOnce ==
    (op = "wait" /\ ready_at_call) =>
        /\ pc \in {"w_status", "idle", "exit"}
        /\ cmds \cap {"close", "sleep", "open"} = {}
        /\ (pc = "idle" => wait_result = "True" /\ polls = 1)
        /\ (pc = "exit" => fatal = "transport")

\* wait() was called with build.ready present and has returned True.
C6_Witness ==
    /\ op = "wait" /\ pc = "idle"
    /\ ready_at_call
    /\ wait_result = "True"

Rank(s) ==
    CASE s = "none" -> 0
      [] s = "Not started" -> 1
      [] s = "Building" -> 2
      [] OTHER -> 3
Forward(s, t) == Rank(s) <= Rank(t) /\ (Rank(s) = 3 => t = s)

\* C7: for one job, launched into a job directory without markers, the
\* statuses status() returns only move forward along Not started ->
\* Building -> {Complete, Failed}: after Complete every later status is
\* Complete, after Failed every later one is Failed, and Building is never
\* followed by Not started.
C7_StatusMovesForward == [][clean_launch' => Forward(status, status')]_vars

\* status() has returned Failed for a job that has ended.
C7_Witness ==
    /\ clean_launch /\ job_pc = "done"
    /\ op = "status" /\ pc = "idle"
    /\ status = "Failed"
    /\ fs[failedfile] = "file"

Detected == pc \notin {"init", "test_windows"}

\* C8: an endpoint that answers the POSIX probe gives type linux, user
\* ec2-user, separator '/'; one that answers only the Windows probe gives
\* type windows, user dev-admin, separator '\'; one that answers neither
\* ends construction in a fatal exit, with no Host.
C8_DetectedType ==
    /\ (endpoint.posix /\ pc # "init") =>
          self.type = LINUX_TYPE /\ self.user = LINUX_USER /\ self.separator = "/"
    /\ (~endpoint.posix /\ endpoint.windows /\ Detected) =>
          self.type = WINDOWS_TYPE /\ self.user = WINDOWS_USER /\ self.separator = "\\"
    /\ (~endpoint.posix /\ ~endpoint.windows /\ Detected) =>
          pc = "exit" /\ fatal = "detect" /\ ~constructed /\ self = NoHost
    /\ constructed => self.type \in {LINUX_TYPE, WINDOWS_TYPE}

\* A Host has been constructed against an endpoint that answers only the Windows probe.
C8_Witness ==
    /\ constructed
    /\ ~endpoint.posix /\ endpoint.windows
    /\ self.type = WINDOWS_TYPE

MkPcs == {"mk_exists", "mk_isdir", "mk_create"}

\* C9: a mkdir() call on a path that an earlier mkdir() call created, on
\* either OS kind, issues no create command and changes nothing on the
\* remote filesystem (and ends in no fatal exit but a dead channel's).
C9_MkdirIdempotent ==
    [][(pc \in MkPcs /\ mk_path \in mk_made /\ pc' # pc) =>
          /\ fs' = fs
          /\ pc' # "mk_create"
          /\ "mkdir" \notin cmds'
          /\ (pc' = "exit" => fatal' = "transport")]_vars

\* A second mkdir() on a path the first one created has returned, on Windows.
C9_Witness ==
    /\ op = "mkdir" /\ pc = "idle"
    /\ mk_path \in mk_made
    /\ cmds = {"exists", "isdir"}
    /\ self.type = WINDOWS_TYPE

InMkdirOp == mk_path \in Paths /\ op \in {"init", "mkdir", "build"}

\* C10: mkdir() on a path that exists and is not a directory, on either OS
\* kind, ends in a fatal exit, issues no create command and leaves the
\* filesystem as it is.
C10_MkdirOnFileIsFatal ==
    /\ []((InMkdirOp /\ fs[mk_path] = "file") =>
            /\ pc \in {"mk_exists", "mk_isdir", "exit"}
            /\ "mkdir" \notin cmds
            /\ (pc = "exit" => fatal \in {"mkdir", "transport"}))
    /\ [][(InMkdirOp /\ fs[mk_path] = "file" /\ pc' # pc) => fs' = fs]_vars

\* mkdir() has met a file and ended in its fatal exit, on Windows.
C10_Witness ==
    /\ op = "mkdir" /\ pc = "exit" /\ fatal = "mkdir"
    /\ fs[mk_path] = "file"
    /\ cmds = {"exists", "isdir"}
    /\ self.type = WINDOWS_TYPE

\* ------------------------------------------- a constructed Host
\* The filesystem with the session directory and nothing below it.
SessionOnly == [p \in Paths |-> IF p = sisyphus_dir THEN "dir" ELSE "none"]

\* The state Host.__init__ leaves when it returns for an endpoint of type
\* t whose filesystem is f: the attributes set, the channel open, the
\* session directory present, no operation called yet.
HostReady(t, f) ==
    /\ endpoint = [posix |-> t = LINUX_TYPE, windows |-> t = WINDOWS_TYPE]
    /\ self = HostAttrs(t)
    /\ constructed = TRUE
    /\ connection = "open"
    /\ fs = f
    /\ job_pc = "none"
    /\ pc = "idle"
    /\ op = "init"
    /\ mk_path = sisyphus_dir
    /\ ret = "constructed"
    /\ cmds = {}
    /\ files = {}
    /\ status = "none"
    /\ wait_result = "none"
    /\ polls = 0
    /\ fatal = "none"
    /\ clean_launch = FALSE
    /\ ready_at_call = FALSE
    /\ mk_made = {}
    /\ chan = Connection(NoChannel, HostAttrs(t).user, host)

\* What an operation of the later sections leaves alone of the state above.
HostFrame == <<endpoint, self, constructed, job_pc, mk_path, ret, Results, clean_launch, mk_made>>

\* --------------------------------------------------- Host.path_join
\* A string is the sequence of its characters.  The characters the
\* segments are drawn from: both separators and a letter.
Chars == {"/", "\\", "a"}

\* The longest segment path_join is applied to.
MaxSegLen == 2

Segments == UNION {[1..n -> Chars] : n \in 0..MaxSegLen}

\* self.separator.join(list(paths)).
RECURSIVE Join(_, _)
Join(sep, paths) ==
    IF paths = <<>> THEN <<>>
    ELSE IF Len(paths) = 1 THEN paths[1]
    ELSE paths[1] \o <<sep>> \o Join(sep, Tail(paths))

\* A mutant of CleanStep: every character is kept.
CleanStepKeepsAll(sep, cleaned_path, c) == Append(cleaned_path, c)

\* One round of path_join's loop: a separator that follows a separator is
\* skipped, any other character is appended.
CleanStep(sep, cleaned_path, c) ==
    IF Len(cleaned_path) > 0 /\ c = sep /\ cleaned_path[Len(cleaned_path)] = sep
    THEN cleaned_path
    ELSE Append(cleaned_path, c)

\* path_join's loop over the characters of path from the i-th on.
RECURSIVE CleanFrom(_, _, _, _)
CleanFrom(sep, path, i, cleaned_path) ==
    IF i > Len(path) THEN cleaned_path
    ELSE CleanFrom(sep, path, i + 1, CleanStep(sep, cleaned_path, path[i]))

\* A mutant of path_join: each segment is cleaned, then the segments are joined.
PathJoinCleansSegments(sep, paths) ==
    Join(sep, [i \in 1..Len(paths) |-> CleanFrom(sep, paths[i], 1, <<>>)])

\* path_join(*paths) of a Host whose separator is sep.
path_join(sep, paths) == CleanFrom(sep, Join(sep, paths), 1, <<>>)

\* The segments are given; path_join has not been called.
JoinInit ==
    /\ \E t \in {LINUX_TYPE, WINDOWS_TYPE} : HostReady(t, SessionOnly)
    /\ rm_path = <<>>
    /\ pp = NoPrepare
    /\ second = NoSecond
    /\ dl = NoDownload
    /\ wb = NoWatch
    /\ \E a \in Segments, b \in Segments, c \in Segments :
          pj = [step |-> "args", a |-> a, b |-> b, c |-> c, ab |-> <<>>, ab_c |-> <<>>,
                abc |-> <<>>, a_b |-> <<>>, again |-> <<>>,
                workdir |-> <<>>, tf |-> <<>>, tf_other |-> <<>>]

JoinFrame == <<endpoint, self, constructed, connection, fs, job_pc, pc, op, mk_path, ret, cmds,
               Results, fatal, clean_launch, mk_made, rm_path, dl, wb, chan, pp, second>>

\* path_join(a, b).
JoinPair ==
    /\ pj.step = "args"
    /\ pj' = [pj EXCEPT !.step = "pair", !.ab = path_join(self.separator, <<pj.a, pj.b>>)]
    /\ UNCHANGED JoinFrame

\* path_join(path_join(a, b), c).
JoinNested ==
    /\ pj.step = "pair"
    /\ pj' = [pj EXCEPT !.step = "nested", !.ab_c = path_join(self.separator, <<pj.ab, pj.c>>)]
    /\ UNCHANGED JoinFrame

\* path_join(a, b, c).
JoinAll ==
    /\ pj.step = "nested"
    /\ pj' = [pj EXCEPT !.step = "all", !.abc = path_join(self.separator, <<pj.a, pj.b, pj.c>>)]
    /\ UNCHANGED JoinFrame

\* path_join(a, "", b).
JoinWithEmpty ==
    /\ pj.step = "all"
    /\ pj' = [pj EXCEPT !.step = "empty", !.a_b = path_join(self.separator, <<pj.a, <<>>, pj.b>>)]
    /\ UNCHANGED JoinFrame

\* path_join applied to its own result.
JoinAgain ==
    /\ pj.step = "empty"
    /\ pj' = [pj EXCEPT !.step = "done", !.again = path_join(self.separator, <<pj.abc>>)]
    /\ UNCHANGED JoinFrame

\* self.topdir of a Host of type t, as a string: the separator and the
\* name "tmp" (LINUX_TOPDIR, WINDOWS_TOPDIR).
topdir(t) == IF t = LINUX_TYPE THEN <<"/", "tmp">> ELSE <<"\\", "tmp">>

\* self.sisyphus_dir as a string: path_join(self.topdir, "sisyphus").
SisyphusDir == path_join(self.separator, <<topdir(self.type), <<"sisyphus">>>>)

\* path(*paths): path_join(self.sisyphus_dir, *paths).
Path(paths) == path_join(self.separator, <<SisyphusDir>> \o paths)

\* A mutant of tf_name: the name holds the host type only.
TfNameWithoutPackage(pkg) == <<"sisyphus_", self.type, ".tar">>

\* download's tf_name for a package: "sisyphus_", the package name, "_",
\* the host type and ".tar".
tf_name(pkg) == <<"sisyphus_">> \o pkg \o <<"_", self.type, ".tar">>

\* download's tf: path_join(self.topdir, tf_name).
TransportTar(pkg) == path_join(self.separator, <<topdir(self.type), tf_name(pkg)>>)

\* prepare_and_build for the package named a: workdir = host.path(package),
\* the path it hands to host.rm.
PathWorkdir ==
    /\ pj.step = "done"
    /\ pj' = [pj EXCEPT !.step = "workdir", !.workdir = Path(<<pj.a>>)]
    /\ UNCHANGED JoinFrame

\* download for the package named a: tf, the path it hands to rm.
PathTf ==
    /\ pj.step = "workdir"
    /\ pj' = [pj EXCEPT !.step = "tf", !.tf = TransportTar(pj.a)]
    /\ UNCHANGED JoinFrame

\* Another download on the same host, for the package named b.
PathTfOther ==
    /\ pj.step = "tf"
    /\ pj' = [pj EXCEPT !.step = "tf_other", !.tf_other = TransportTar(pj.b)]
    /\ UNCHANGED JoinFrame

JoinNext ==
    \/ JoinPair \/ JoinNested \/ JoinAll \/ JoinWithEmpty \/ JoinAgain
    \/ PathWorkdir \/ PathTf \/ PathTfOther

SpecPath == JoinInit /\ [][JoinNext]_vars

\* Two separators in a row somewhere in s.
Doubled(sep, s) == \E i \in 1..(Len(s) - 1) : s[i] = sep /\ s[i + 1] = sep

\* C12: path_join is associative, for either separator: joining the
\* result of path_join(a, b) with c gives what path_join(a, b, c) gives.
C12_PathJoinAssociative ==
    pj.step \in {"all", "empty", "done"} => pj.ab_c = pj.abc

\* The case of C12 where the cleaning acts on both seams: a ends with the
\* separator, b is the separator, c starts with it, and both results are in.
C12_Witness ==
    /\ pj.step = "done"
    /\ pj.a = <<"a", self.separator>>
    /\ pj.b = <<self.separator>>
    /\ pj.c = <<self.separator, "a">>
    /\ pj.ab_c = <<"a", self.separator, "a">>
    /\ pj.ab_c = pj.abc

\* C13: the result of path_join never holds two separators in a row; an
\* empty segment between two segments changes nothing; and path_join
\* applied to its own result returns it unchanged.
C13_PathJoinClean ==
    /\ pj.step \in {"pair", "nested", "all", "empty", "done"} => ~Doubled(self.separator, pj.ab)
    /\ pj.step \in {"nested", "all", "empty", "done"} => ~Doubled(self.separator, pj.ab_c)
    /\ pj.step \in {"all", "empty", "done"} => ~Doubled(self.separator, pj.abc)
    /\ pj.step \in {"empty", "done"} => ~Doubled(self.separator, pj.a_b) /\ pj.a_b = pj.ab
    /\ pj.step = "done" => pj.again = pj.abc

\* The case of C13 where an empty segment would double the separator: a
\* ends with it, b starts with it, on a Windows host.
C13_Witness ==
    /\ pj.step = "done"
    /\ self.type = WINDOWS_TYPE
    /\ pj.a = <<"a", "\\">>
    /\ pj.b = <<"\\", "/">>
    /\ pj.a_b = <<"a", "\\", "/">>
    /\ pj.again = pj.abc

\* ---------------------------------------------------------- Host.rm
\* The filesystem without p and without anything below p.
Removed(f, p) == [q \in DOMAIN f |-> IF q = p \/ IsBelow(q, p) THEN "none" ELSE f[q]]

\* rm's delete commands: "rm -rf p", 'rd /s /q "p"' and 'del "p"'.  rm -rf
\* succeeds on a missing path; rd needs a directory, del a file.
DeleteCmd(c, f, p) ==
    CASE c = "rm -rf" -> [ok |-> TRUE, fs |-> Removed(f, p)]
      [] c = "rd /s /q" -> IF f[p] = "dir" THEN [ok |-> TRUE, fs |-> Removed(f, p)]
                           ELSE [ok |-> FALSE, fs |-> f]
      [] c = "del" -> IF f[p] = "file" THEN [ok |-> TRUE, fs |-> Removed(f, p)]
                      ELSE [ok |-> FALSE, fs |-> f]

DeleteCmds == {"rm -rf", "rd /s /q", "del"}

\* A mutant of RmAfterExists: rm() returns without a delete command.
RmReturnsAtOnce(t, r) == "return"

\* A mutant of RmAfterExists: the delete command is issued whatever exists() printed.
RmSkipsExists(t, r) == IF t = LINUX_TYPE THEN "rm -rf" ELSE "rm_isdir"

\* rm(): "if self.exists(path)": on to the delete command (through isdir()
\* on Windows), or return.
RmAfterExists(t, r) ==
    IF r = "Yes" THEN (IF t = LINUX_TYPE THEN "rm -rf" ELSE "rm_isdir") ELSE "return"

\* rm() on Windows: "if self.isdir(path)": rd, or del.
RmAfterIsdir(r) == IF r = "Yes" THEN "rd /s /q" ELSE "del"

RmFrame == <<HostFrame, pj, dl, wb, chan, pp, second>>

\* A caller enters rm(): prepare_and_build on the job directory and on the
\* uploaded tarball, download on its transport tar.
CallRm ==
    /\ pc = "idle"
    /\ \E p \in Paths \ {sisyphus_dir} : rm_path' = p
    /\ op' = "rm"
    /\ pc' = "rm_exists"
    /\ cmds' = {}
    /\ UNCHANGED <<RmFrame, connection, fs, fatal>>

\* self.exists(path) in rm().
RmExists ==
    /\ pc = "rm_exists"
    /\ cmds' = cmds \cup {"exists"}
    /\ \/ /\ connection = "open"
          /\ LET next == RmAfterExists(self.type, ExistsCmd(self.type, fs, rm_path)) IN
                pc' = (IF next = "return" THEN "idle" ELSE next)
          /\ fatal' = fatal
       \/ /\ connection = "dead"
          /\ Exit("transport")
    /\ UNCHANGED <<RmFrame, connection, fs, op, rm_path>>

\* self.isdir(path) in rm(), on Windows.
RmIsdir ==
    /\ pc = "rm_isdir"
    /\ cmds' = cmds \cup {"isdir"}
    /\ \/ /\ connection = "open"
          /\ pc' = RmAfterIsdir(IsdirCmd(self.type, fs, rm_path))
          /\ fatal' = fatal
       \/ /\ connection = "dead"
          /\ Exit("transport")
    /\ UNCHANGED <<RmFrame, connection, fs, op, rm_path>>

\* The delete command of rm(), and the return after it.
RmDelete ==
    /\ pc \in DeleteCmds
    /\ cmds' = cmds \cup {pc}
    /\ \/ /\ connection = "open"
          /\ LET o == DeleteCmd(pc, fs, rm_path) IN
                IF o.ok
                THEN fs' = o.fs /\ pc' = "idle" /\ fatal' = fatal
                ELSE fs' = fs /\ Exit("command")
       \/ /\ connection = "dead"
          /\ Exit("transport")
          /\ fs' = fs
    /\ UNCHANGED <<RmFrame, connection, op, rm_path>>

Rm == RmExists \/ RmIsdir \/ RmDelete

\* A constructed Host on any filesystem that holds the session directory.
RmInit ==
    /\ \E t \in {LINUX_TYPE, WINDOWS_TYPE} :
          \E f \in {g \in [Paths -> Kinds] : WellFormed(g) /\ g[sisyphus_dir] = "dir"} :
             HostReady(t, f)
    /\ rm_path = <<>>
    /\ pp = NoPrepare
    /\ second = NoSecond
    /\ pj = NoJoin
    /\ dl = NoDownload
    /\ wb = NoWatch

\* The session with rm() among its operations: directories are made and
\* removed, a job is launched, the transport may die.
RmNext == CallRm \/ Rm \/ CallMkdir \/ Mkdir \/ CallBuild \/ BuildLaunch \/ Job \/ TransportDies

SpecRm == RmInit /\ [][RmNext]_vars

\* p is path or lies below it.
Within(p, path) == p = path \/ IsBelow(p, path)

\* C11: rm(path) on a path that does not exist issues no delete command
\* and changes nothing; on a path that exists, rm returns only after a
\* delete command, and then neither the path nor anything below it
\* exists, on both OS kinds; no step of rm removes anything outside path.
C11_RmRemovesSubtreeOnly ==
    [][(op = "rm" /\ pc \in {"rm_exists", "rm_isdir"} \cup DeleteCmds /\ pc' # pc) =>
          /\ \A q \in Paths : ~Within(q, rm_path) => fs'[q] = fs[q]
          /\ (pc = "rm_exists" /\ fs[rm_path] = "none" /\ pc' # "exit") =>
                (pc' = "idle" /\ fs' = fs /\ cmds' \cap DeleteCmds = {})
          /\ (pc = "rm_exists" /\ fs[rm_path] # "none") => pc' # "idle"
          /\ (pc \in DeleteCmds /\ pc' = "idle") =>
                \A q \in Paths : Within(q, rm_path) => fs'[q] = "none"
          /\ (pc' = "idle") => fs'[rm_path] = "none"]_vars

\* rm() of the job directory has returned on a Windows host after its rd
\* command, while the launched job was writing into that directory.
C11_Witness ==
    /\ op = "rm" /\ pc = "idle"
    /\ self.type = WINDOWS_TYPE
    /\ rm_path = workdir
    /\ "rd /s /q" \in cmds
    /\ job_pc \in {"payload", "touch_ready", "touch_failed"}
    /\ fs[workdir] = "none" /\ fs[logfile] = "none"

\* ------------------------------------------------------- Host.run
\* A mutant of run: quiet is not looked at.
RunIgnoresQuiet(ok, quiet) ==
    IF ok THEN [raised |-> FALSE, r |-> "stdout"] ELSE [raised |-> TRUE, r |-> "None"]

\* run(cmd, quiet): the stripped output when the command succeeds; when it
\* fails (nonzero exit or transport error) SystemExit(1) unless quiet, and
\* with quiet the function falls off its end and returns None.
run(ok, quiet) ==
    IF ok THEN [raised |-> FALSE, r |-> "stdout"]
    ELSE IF quiet THEN [raised |-> FALSE, r |-> "None"]
    ELSE [raised |-> TRUE, r |-> "None"]

\* A step of transmute/download that issues one command through run() on
\* a channel in state conn: d is dl after the step, next the position
\* after a return of run().
RunStep(conn, ok, quiet, d, next) ==
    LET o == run(ok, quiet) IN
    /\ dl' = [d EXCEPT !.run = [quiet |-> quiet, failed |-> ~ok, r |-> o.r]]
    /\ IF o.raised
       THEN Exit(IF conn = "dead" THEN "transport" ELSE "command")
       ELSE pc' = next /\ fatal' = fatal

\* ------------------------------------------ artifacts and the transport tar
\* How many artifact base names the build output directory may hold.
MaxBases == 3

BaseNames == <<"a", "b", "c", "d">>
Bases == {BaseNames[i] : i \in 1..MaxBases}
Artifacts == {b \o e : b \in Bases, e \in {".tar.bz2", ".conda"}}

\* What the per-architecture output directory may hold: artifacts and the index.
Names == Artifacts \cup {"repodata.json"}

\* name.endswith(suffix).
endswith(name, suffix) == \E b \in Bases : name = b \o suffix

\* re.sub(suffix + "$", repl, name): the text before the suffix is kept.
ReSub(suffix, repl, name) ==
    LET stems == {st \in {b \o "." : b \in Bases} : name = st \o suffix} IN
    IF stems = {} THEN name ELSE (CHOOSE st \in stems : TRUE) \o repl

\* The transport tar of a host of type t, in the top directory.
tf(t) == <<"sisyphus_" \o package \o "_" \o t \o ".tar">>

\* ls(pkgdir) on the output directory d describes: as LsCmd, a missing
\* directory fails and cmd's dir reports nothing found in an empty one.
PkgdirLs(t, d) ==
    IF ~d.dir THEN {[ok |-> FALSE, lines |-> {}]}
    ELSE IF t = WINDOWS_TYPE /\ d.pkgs = {}
         THEN {[ok |-> FALSE, lines |-> {}], [ok |-> TRUE, lines |-> {}]}
    ELSE {[ok |-> TRUE, lines |-> d.pkgs]}

\* No command has gone through run().
NoRun == [quiet |-> FALSE, failed |-> FALSE, r |-> "none"]

\* A finished job (one that failed before it made its output directory,
\* or one that completed), the output directory with any content, a
\* transport tar an earlier download may have left behind, and a local
\* destination that may hold an earlier extraction.
DlInit ==
    /\ \E t \in {LINUX_TYPE, WINDOWS_TYPE}, stale \in BOOLEAN, dir \in BOOLEAN,
          pkgs \in SUBSET Names, old \in BOOLEAN :
          /\ ~dir => pkgs = {}
          /\ HostReady(t, [p \in Paths \cup {tf(t)} |->
                              IF p \in DirPaths \cup {logfile} THEN (IF p = logfile THEN "file" ELSE "dir")
                              ELSE IF p = (IF dir THEN readyfile ELSE failedfile) THEN "file"
                              ELSE IF p = tf(t) /\ stale THEN "file" ELSE "none"])
          /\ dl = [all |-> FALSE, dir |-> dir, pkgs |-> pkgs, bz2 |-> {}, conda |-> {},
                   todo1 |-> {}, todo2 |-> {}, conv1 |-> {}, conv2 |-> {}, files |-> {},
                   tar |-> IF stale THEN {"stale.conda"} ELSE {},
                   made |-> FALSE, local_tar |-> {},
                   local_dir |-> IF old THEN {"old.conda"} ELSE {},
                   prev |-> IF old THEN {"old.conda"} ELSE {}, run |-> NoRun]
    /\ rm_path = <<>>
    /\ pp = NoPrepare
    /\ second = NoSecond
    /\ pj = NoJoin
    /\ wb = NoWatch

DlFrame == <<HostFrame, pj, wb, pp, second>>

\* The bookkeeping of a new call.
Called(all) ==
    [dl EXCEPT !.all = all, !.bz2 = {}, !.conda = {}, !.todo1 = {}, !.todo2 = {}, !.conv1 = {},
               !.conv2 = {}, !.files = {}, !.made = FALSE, !.prev = dl.local_dir, !.run = NoRun]

\* ---------------------------------------------------- Host.transmute
\* A mutant of Lacking: every listed artifact is converted.
LackingNone(from, other, suffix, repl) == from

\* The artifacts of one format whose counterpart is not in the listing of
\* the other format.
Lacking(from, other, suffix, repl) == {p \in from : ReSub(suffix, repl, p) \notin other}

\* The CLI's transmute command calls transmute(package).
CallTransmute ==
    /\ pc = "idle"
    /\ op' = "transmute"
    /\ pc' = "tm_ls1"
    /\ cmds' = {}
    /\ dl' = Called(FALSE)
    /\ UNCHANGED <<DlFrame, chan, connection, fs, fatal, rm_path>>

\* all_bz2_pkgs: the first ls(pkgdir).
TmLsBz2 ==
    /\ pc = "tm_ls1"
    /\ cmds' = cmds \cup {"ls"}
    /\ \E o \in PkgdirLs(self.type, dl) :
          LET ok == o.ok /\ connection = "open" IN
          RunStep(connection, ok, FALSE,
                  [dl EXCEPT !.bz2 = IF ok THEN {n \in o.lines : endswith(n, ".tar.bz2")} ELSE {}],
                  "tm_ls2")
    /\ UNCHANGED <<DlFrame, chan, connection, fs, op, rm_path>>

\* all_conda_pkgs: the second ls(pkgdir); bz2_pkgs and conda_pkgs.
TmLsConda ==
    /\ pc = "tm_ls2"
    /\ cmds' = cmds \cup {"ls"}
    /\ \E o \in PkgdirLs(self.type, dl) :
          LET ok == o.ok /\ connection = "open"
              all_conda_pkgs == IF ok THEN {n \in o.lines : endswith(n, ".conda")} ELSE {}
          IN  RunStep(connection, ok, FALSE,
                      IF ok
                      THEN [dl EXCEPT !.conda = all_conda_pkgs,
                                      !.todo1 = Lacking(dl.bz2, all_conda_pkgs, "tar.bz2", "conda"),
                                      !.todo2 = Lacking(all_conda_pkgs, dl.bz2, "conda", "tar.bz2")]
                      ELSE dl,
                      "tm_convert")
    /\ UNCHANGED <<DlFrame, chan, connection, fs, op, rm_path>>

\* One round of the two loops: reset_connection(), then cph t on the next
\* artifact of bz2_pkgs or, when these are done, of conda_pkgs.
TmConvert ==
    /\ pc = "tm_convert"
    /\ dl.todo1 \cup dl.todo2 # {}
    /\ cmds' = cmds \cup {"cph"}
    /\ connection' = "open"
    /\ chan' = reset_connection(chan)
    /\ \E ok \in BOOLEAN :
          IF dl.todo1 # {}
          THEN \E p \in dl.todo1 :
                  RunStep("open", ok, FALSE,
                          [dl EXCEPT !.todo1 = @ \ {p}, !.conv1 = @ \cup {p},
                                     !.pkgs = IF ok THEN @ \cup {ReSub("tar.bz2", "conda", p)} ELSE @],
                          "tm_convert")
          ELSE \E p \in dl.todo2 :
                  RunStep("open", ok, FALSE,
                          [dl EXCEPT !.todo2 = @ \ {p}, !.conv2 = @ \cup {p},
                                     !.pkgs = IF ok THEN @ \cup {ReSub("conda", "tar.bz2", p)} ELSE @],
                          "tm_convert")
    /\ UNCHANGED <<DlFrame, fs, op, rm_path>>

\* The loops are over: the last reset_connection(), and transmute returns
\* (into download when download called it).
TmDone ==
    /\ pc = "tm_convert"
    /\ dl.todo1 \cup dl.todo2 = {}
    /\ connection' = "open"
    /\ chan' = reset_connection(chan)
    /\ pc' = (IF op = "download" THEN "dl_ls" ELSE "idle")
    /\ UNCHANGED <<DlFrame, fs, op, rm_path, cmds, dl, fatal>>

Transmute == TmLsBz2 \/ TmLsConda \/ TmConvert \/ TmDone

\* ----------------------------------------------------- Host.download
\* The CLI's download and auto commands call download(package, destination, all).
CallDownload ==
    /\ pc = "idle"
    /\ op' = "download"
    /\ pc' = "tm_ls1"
    /\ cmds' = {}
    /\ \E all \in BOOLEAN : dl' = Called(all)
    /\ UNCHANGED <<DlFrame, chan, connection, fs, fatal, rm_path>>

\* files: the third ls(pkgdir), and the return when it lists no artifact.
DlLs ==
    /\ pc = "dl_ls"
    /\ cmds' = cmds \cup {"ls"}
    /\ \E o \in PkgdirLs(self.type, dl) :
          LET ok == o.ok /\ connection = "open"
              fls == IF ok THEN {n \in o.lines : endswith(n, ".tar.bz2") \/ endswith(n, ".conda")}
                     ELSE {}
          IN  RunStep(connection, ok, FALSE, [dl EXCEPT !.files = fls],
                      IF fls = {} THEN "idle" ELSE "dl_tar")
    /\ UNCHANGED <<DlFrame, chan, connection, fs, op, rm_path>>

\* What the archive command packs: the session directory, or the artifacts.
Packed(d) == IF d.all THEN d.pkgs \cup {"sisyphus"} ELSE d.files

\* The archive command.  "cd topdir && tar -cf tf sisyphus" reports what
\* tar reports; the Linux line ends in "|| true" and always succeeds; the
\* Windows line may report anything and is run quiet.  Whether the tar
\* has been written is a separate matter.
DlTar ==
    /\ pc = "dl_tar"
    /\ cmds' = cmds \cup {"tar"}
    /\ \E made \in BOOLEAN, ok \in BOOLEAN :
          /\ connection = "dead" => ~made /\ ~ok
          /\ (connection = "open" /\ dl.all) => ok = made
          /\ (connection = "open" /\ ~dl.all /\ self.type = LINUX_TYPE) => ok
          /\ fs' = IF made THEN [fs EXCEPT ![tf(self.type)] = "file"] ELSE fs
          /\ RunStep(connection, ok, ~dl.all /\ self.type = WINDOWS_TYPE,
                     [dl EXCEPT !.made = made, !.tar = IF made THEN Packed(dl) ELSE @],
                     "dl_exists")
    /\ UNCHANGED <<DlFrame, chan, connection, op, rm_path>>

\* A mutant of DlAfterExists: the answer of exists(tf) is not looked at.
DlGoesOn(r) == "dl_local"

\* "if not self.exists(tf)": the fatal exit, or on to the local side.
DlAfterExists(r) == IF r = "Yes" THEN "dl_local" ELSE "exit"

\* self.exists(tf) after the archive command.
DlExists ==
    /\ pc = "dl_exists"
    /\ cmds' = cmds \cup {"exists"}
    /\ LET ok == connection = "open" IN
          IF ok /\ DlAfterExists(ExistsCmd(self.type, fs, tf(self.type))) = "exit"
          THEN /\ dl' = [dl EXCEPT !.run = [quiet |-> FALSE, failed |-> FALSE, r |-> "stdout"]]
               /\ Exit("no_tar")
          ELSE RunStep(connection, ok, FALSE, dl, "dl_local")
    /\ UNCHANGED <<DlFrame, chan, connection, fs, op, rm_path>>

\* os.makedirs(destination), shutil.rmtree of the earlier extraction,
\* os.chdir(destination) and reset_connection().
DlLocal ==
    /\ pc = "dl_local"
    /\ cmds' = cmds \cup {"makedirs", "rmtree", "chdir"}
    /\ dl' = [dl EXCEPT !.local_dir = {}]
    /\ connection' = "open"
    /\ chan' = reset_connection(chan)
    /\ pc' = "dl_get"
    /\ UNCHANGED <<DlFrame, fs, op, rm_path, fatal>>

\* self.connection.get(tf): the tar arrives, or the fatal exit.
DlGet ==
    /\ pc = "dl_get"
    /\ cmds' = cmds \cup {"get"}
    /\ \E ok \in BOOLEAN :
          /\ connection = "dead" => ~ok
          /\ IF ok
             THEN dl' = [dl EXCEPT !.local_tar = dl.tar] /\ pc' = "dl_extract" /\ fatal' = fatal
             ELSE dl' = dl /\ Exit("transfer")
    /\ UNCHANGED <<DlFrame, chan, connection, fs, op, rm_path>>

\* extractall(), reset_connection(), os.remove(tf_name); rm(tf) is entered.
DlExtract ==
    /\ pc = "dl_extract"
    /\ cmds' = cmds \cup {"extract", "remove"}
    /\ dl' = [dl EXCEPT !.local_dir = dl.local_tar, !.local_tar = {}]
    /\ connection' = "open"
    /\ chan' = reset_connection(chan)
    /\ rm_path' = tf(self.type)
    /\ pc' = "rm_exists"
    /\ UNCHANGED <<DlFrame, fs, op, fatal>>

Download == DlLs \/ DlTar \/ DlExists \/ DlLocal \/ DlGet \/ DlExtract

\* The session with transmute() and download() as its operations; rm()
\* runs as the last call of download.
DlNext == CallTransmute \/ CallDownload \/ Transmute \/ Download \/ Rm \/ TransportDies

SpecDownload == DlInit /\ [][DlNext]_vars

\* The same artifact in the other format.
Other(p) == CHOOSE q \in Artifacts : q # p /\ \E b \in Bases : {p, q} = {b \o ".tar.bz2", b \o ".conda"}

\* The base names of a set of artifacts.
BasesOf(S) == {b \in Bases : \E e \in {".tar.bz2", ".conda"} : b \o e \in S}

\* transmute() has read its listings / has returned.
TransmuteListed == op \in {"transmute", "download"} /\ pc \notin {"tm_ls1", "tm_ls2", "exit"}
TransmuteReturned == TransmuteListed /\ pc # "tm_convert"

\* What download does once it has found artifacts.
Transfers == {"tar", "get", "makedirs", "rmtree", "chdir", "extract", "remove"}

\* C14: transmute is a set difference: the conversions of the first pass
\* (issued or still to issue) are exactly the listed .tar.bz2 artifacts
\* whose .conda is not listed, those of the second pass exactly the listed
\* .conda artifacts whose .tar.bz2 is not listed; so an artifact listed in
\* both formats is never converted and no base name is converted in both
\* passes; and when transmute has returned every artifact of the
\* directory is there in both formats.
C14_TransmuteIsSetDifference ==
    /\ TransmuteListed =>
          /\ dl.conv1 \cup dl.todo1 = {p \in dl.bz2 : Other(p) \notin dl.conda}
          /\ dl.conv2 \cup dl.todo2 = {p \in dl.conda : Other(p) \notin dl.bz2}
          /\ \A p \in dl.conv1 \cup dl.conv2 : ~({p, Other(p)} \subseteq dl.bz2 \cup dl.conda)
          /\ BasesOf(dl.conv1) \cap BasesOf(dl.conv2) = {}
    /\ TransmuteReturned =>
          /\ dl.todo1 \cup dl.todo2 = {}
          /\ \A p \in dl.pkgs \cap Artifacts : Other(p) \in dl.pkgs

\* The case of C14: a was listed in both formats, b only as .tar.bz2, c
\* only as .conda; transmute has returned after converting b and c.
C14_Witness ==
    /\ op = "transmute" /\ pc = "idle"
    /\ dl.bz2 = {"a.tar.bz2", "b.tar.bz2"}
    /\ dl.conda = {"a.conda", "c.conda"}
    /\ dl.conv1 = {"b.tar.bz2"}
    /\ dl.conv2 = {"c.conda"}
    /\ {"b.conda", "c.tar.bz2"} \subseteq dl.pkgs

\* C15: download with no artifact in the output directory returns
\* normally (nothing but a dead transport ends it in a fatal exit) and
\* performs no archive creation, no transfer, no local deletion and no
\* local extraction, in both modes.
C15_NoArtifactsReturnsNormally ==
    (op = "download" /\ dl.pkgs \cap Artifacts = {}) =>
        /\ cmds \cap Transfers = {}
        /\ dl.local_dir = dl.prev /\ dl.local_tar = {}
        /\ pc = "exit" => fatal = "transport"

\* C16: when the transport tar does not exist after the archive command,
\* the exists(tf) step ends the invocation in a fatal exit, and at that
\* exit no transfer has been attempted and the earlier local extraction
\* has not been touched.
C16_MissingTarIsFatalFirst ==
    /\ [](fatal = "no_tar" =>
            /\ cmds \cap {"get", "rmtree"} = {}
            /\ dl.local_dir = dl.prev /\ dl.local_tar = {})
    /\ [][(pc = "dl_exists" /\ pc' # pc /\ fs[tf(self.type)] = "none") => pc' = "exit"]_vars

\* The case of C16 on Windows: the archive command has run quiet, no tar
\* is there, and the invocation has exited with the earlier extraction in place.
C16_Witness ==
    /\ op = "download" /\ pc = "exit" /\ fatal = "no_tar"
    /\ self.type = WINDOWS_TYPE /\ ~dl.all
    /\ "tar" \in cmds
    /\ dl.prev = {"old.conda"} /\ dl.local_dir = dl.prev

\* C17: when download has found artifacts and has returned, neither the
\* local nor the remote transport tar exists, and the destination holds
\* what the tar held: the artifacts found, when this call's archive
\* command wrote the tar.
C17_DownloadLeavesNoTar ==
    (op = "download" /\ pc = "idle" /\ dl.files # {}) =>
        /\ dl.local_tar = {}
        /\ fs[tf(self.type)] = "none"
        /\ dl.local_dir = dl.tar /\ dl.local_dir # {}
        /\ dl.made => dl.files \subseteq dl.local_dir

\* The case of C17: a normal-mode download from a Windows host has
\* returned; it replaced an earlier extraction and removed the tar with del.
C17_Witness ==
    /\ op = "download" /\ pc = "idle" /\ dl.files # {}
    /\ self.type = WINDOWS_TYPE /\ ~dl.all /\ dl.made
    /\ dl.prev = {"old.conda"}
    /\ "del" \in cmds
    /\ dl.local_dir = dl.files

\* C18: a command that fails in run() without quiet ends the invocation
\* in a fatal exit; with quiet the failure is suppressed: run returns
\* None and the caller is at its next step, with no fatal exit.
C18_RunFatalUnlessQuiet ==
    /\ []((dl.run.failed /\ ~dl.run.quiet) => (pc = "exit" /\ fatal \in {"transport", "command"}))
    /\ [][(dl'.run # dl.run /\ dl'.run.failed /\ dl'.run.quiet) =>
             (pc' = "dl_exists" /\ fatal' = "none" /\ dl'.run.r = "None")]_vars

\* The case of C18 with quiet: the Windows archive command has failed on
\* a dead transport and download is at its next step, exists(tf).
C18_Witness ==
    /\ op = "download" /\ pc = "dl_exists"
    /\ dl.run = [quiet |-> TRUE, failed |-> TRUE, r |-> "None"]
    /\ connection = "dead"
    /\ fatal = "none"

\* -------------------------------------------------- Host.watch_build
\* How many lines the job writes to its log.
MaxLog == 3

\* The largest batch of lines one read returns (1000 in the source; the
\* model's logs are a few lines long).
max_lines == 2

\* The lines numbered from..to of a log.
Lines(from, to) == [i \in 1..(IF to >= from THEN to - from + 1 ELSE 0) |-> from + i - 1]

\* The last n elements of s.
Last(s, n) == IF Len(s) <= n THEN s ELSE SubSeq(s, Len(s) - n + 1, Len(s))

\* The log read of one tick, on a log of n lines (haslog: the file is
\* there), with lines_read = k: the possible outcomes.
\*   'tail -n +k "log" | tail -n max_lines': tail -n +k starts at line k
\*   (at line 1 for k = 0); the pipeline's status is the last tail's, so
\*   a missing log gives no line and no failure.
\*   'powershell -Command "Get-Content log | Select-Object -Skip k |
\*   Select-Object -Last max_lines"': k lines are skipped; on a missing
\*   log Get-Content reports an error (both exit codes are kept as possible).
LogCmd(t, haslog, n, k) ==
    IF t = LINUX_TYPE
    THEN {[ok |-> TRUE,
           lines |-> IF haslog THEN Last(Lines(IF k = 0 THEN 1 ELSE k, n), max_lines) ELSE <<>>]}
    ELSE IF haslog THEN {[ok |-> TRUE, lines |-> Last(Lines(k + 1, n), max_lines)]}
    ELSE {[ok |-> FALSE, lines |-> <<>>], [ok |-> TRUE, lines |-> <<>>]}

\* No watch is running: an empty log, nothing read, nothing emitted.
Unwatched == [log |-> 0, lines_read |-> 0, emitted |-> <<>>, before |-> 0, batch |-> <<>>]

\* A constructed Host and the job directory as prepare_and_build leaves
\* it before build(): unpacked, without markers, with or without a build
\* directory.
WbInit ==
    /\ \E t \in {LINUX_TYPE, WINDOWS_TYPE}, dirs \in {{sisyphus_dir, workdir}, DirPaths} :
          HostReady(t, [p \in Paths |-> IF p \in dirs THEN "dir" ELSE "none"])
    /\ rm_path = <<>>
    /\ pp = NoPrepare
    /\ second = NoSecond
    /\ pj = NoJoin
    /\ dl = NoDownload
    /\ wb = Unwatched

WbFrame == <<endpoint, self, constructed, job_pc, mk_path, ret, Results, clean_launch, mk_made,
             rm_path, pj, dl, fs, pp, second>>

\* The job's payload writes a line to the log its output is redirected to.
JobWrites ==
    /\ job_pc = "payload"
    /\ fs[logfile] = "file"
    /\ wb.log < MaxLog
    /\ wb' = [wb EXCEPT !.log = @ + 1]
    /\ UNCHANGED <<WbFrame, chan, connection, pc, op, cmds, fatal>>

\* The CLI's watch command calls watch_build(workdir): lines_read = 0.
CallWatch ==
    /\ pc = "idle"
    /\ op' = "watch"
    /\ pc' = "wb_read"
    /\ cmds' = {}
    /\ wb' = [wb EXCEPT !.lines_read = 0, !.emitted = <<>>, !.before = 0, !.batch = <<>>]
    /\ UNCHANGED <<WbFrame, chan, connection, fatal>>

\* One tick's read: run() of the log command, every line logged,
\* lines_read += len(lines).  (The log's lines are not blank, so that
\* run()'s stripping of the output drops none.)
WbRead ==
    /\ pc = "wb_read"
    /\ cmds' = cmds \cup {"read"}
    /\ \/ /\ connection = "open"
          /\ \E o \in LogCmd(self.type, fs[logfile] = "file", wb.log, wb.lines_read) :
                IF o.ok
                THEN /\ wb' = [wb EXCEPT !.before = wb.lines_read, !.batch = o.lines,
                                         !.emitted = @ \o o.lines,
                                         !.lines_read = @ + Len(o.lines)]
                     /\ pc' = "wb_ready"
                     /\ fatal' = fatal
                ELSE wb' = wb /\ Exit("command")
       \/ /\ connection = "dead"
          /\ wb' = wb
          /\ Exit("transport")
    /\ UNCHANGED <<WbFrame, chan, connection, op>>

\* A mutant of WbAfterFailed: build.failed ends the watch like build.ready.
WbFailedReturns(r) == IF r = "Yes" THEN "idle" ELSE "wb_read"

\* "if self.exists(build.ready)": the return, or on to the next check.
WbAfterReady(r) == IF r = "Yes" THEN "idle" ELSE "wb_failed"

\* "if self.exists(build.failed)": the fatal exit, or the next tick.
WbAfterFailed(r) == IF r = "Yes" THEN "exit" ELSE "wb_read"

\* self.exists(build.ready) and the return on it.
WbReady ==
    /\ pc = "wb_ready"
    /\ cmds' = cmds \cup {"exists"}
    /\ \/ /\ connection = "open"
          /\ pc' = WbAfterReady(ExistsCmd(self.type, fs, readyfile))
          /\ fatal' = fatal
       \/ /\ connection = "dead"
          /\ Exit("transport")
    /\ UNCHANGED <<WbFrame, chan, connection, op, wb>>

\* self.exists(build.failed) and the fatal exit on it; otherwise on to
\* reset_connection(10) and the next tick.
WbFailed ==
    /\ pc = "wb_failed"
    /\ cmds' = cmds \cup {"exists"}
    /\ \/ /\ connection = "open"
          /\ LET next == WbAfterFailed(ExistsCmd(self.type, fs, failedfile)) IN
                IF next = "exit"
                THEN Exit("build_failed")
                ELSE pc' = (IF next = "wb_read" THEN "w_close" ELSE next) /\ fatal' = fatal
       \/ /\ connection = "dead"
          /\ Exit("transport")
    /\ UNCHANGED <<WbFrame, chan, connection, op, wb>>

Watch == WbRead \/ WbReady \/ WbFailed

\* The session of a build and its watch: build() launches the job, the
\* job runs and writes its log, watch_build() follows it.
WbNext ==
    \/ CallBuild \/ Mkdir \/ BuildLaunch \/ Job \/ JobWrites
    \/ CallWatch \/ Watch \/ Reset \/ TransportDies

SpecWatch == WbInit /\ [][WbNext]_vars

\* C19: watch_build stops only on a terminal sentinel: it returns only
\* from the build.ready check that finds build.ready, and then always; it
\* exits on the build's failure only from the build.failed check (made
\* after build.ready was found absent) that finds build.failed, and then
\* always; when that check finds neither it goes to reset_connection(10)
\* and from there to the next tick's read.  Any other exit is a failed
\* command or a dead transport.
C19_WatchStopsOnSentinel ==
    [][(op = "watch" /\ pc \in {"wb_read", "wb_ready", "wb_failed", "w_open"} /\ pc' # pc) =>
          /\ pc' = "idle" => (pc = "wb_ready" /\ fs[readyfile] # "none")
          /\ (pc = "wb_ready" /\ fs[readyfile] # "none" /\ connection = "open") => pc' = "idle"
          /\ (pc' = "exit" /\ fatal' = "build_failed") => (pc = "wb_failed" /\ fs[failedfile] # "none")
          /\ (pc = "wb_failed" /\ fs[failedfile] # "none" /\ connection = "open") =>
                (pc' = "exit" /\ fatal' = "build_failed")
          /\ (pc = "wb_failed" /\ fs[failedfile] = "none" /\ connection = "open") => pc' = "w_close"
          /\ pc = "w_open" => pc' = "wb_read"
          /\ pc' = "exit" => fatal' \in {"build_failed", "transport", "command"}
          /\ pc' \in {"idle", "exit", "wb_read", "wb_ready", "wb_failed", "w_close"}]_vars

\* The case of C19 with build.failed: the watch streamed lines of the
\* log, polled more than once, and exited when the job had failed.
C19_Witness ==
    /\ op = "watch" /\ pc = "exit" /\ fatal = "build_failed"
    /\ fs[failedfile] = "file" /\ fs[readyfile] = "none"
    /\ wb.lines_read > 0
    /\ wb.before > 0

\* The lines of s are all different.
Distinct(s) == \A i \in 1..Len(s), j \in 1..Len(s) : i # j => s[i] # s[j]

\* C20: on every tick the lines read are beyond the lines_read lines
\* already delivered and at most max_lines of them, and over a watch no
\* line of the log is emitted more than once.
C20_NoLineEmittedTwice ==
    op = "watch" =>
        /\ \A i \in 1..Len(wb.batch) : wb.batch[i] > wb.before
        /\ Len(wb.batch) <= max_lines
        /\ Distinct(wb.emitted)

\* C26: detection is ordered and short-circuits: the first step of the
\* construction is the POSIX probe alone; the Windows probe is issued
\* only when the POSIX probe failed, and from a closed channel; when the
\* POSIX probe succeeds no Windows probe is ever issued; when both fail
\* the channel is closed and the two probes are all that was issued.
C26_DetectionOrdered ==
    /\ [](/\ "ver" \in cmds => ("uname" \in cmds /\ ~endpoint.posix)
          /\ endpoint.posix => "ver" \notin cmds
          /\ fatal = "detect" => (connection = "closed" /\ cmds = {"uname", "ver"}))
    /\ [][/\ (pc = "init" /\ pc' # pc) => cmds' = {"uname"}
          /\ (pc = "test_windows" /\ pc' # pc) => (connection = "closed" /\ ~endpoint.posix)]_vars

\* The case of C26 where both probes have failed.
C26_Witness ==
    /\ pc = "exit" /\ fatal = "detect"
    /\ cmds = {"uname", "ver"}
    /\ connection = "closed"
    /\ self = NoHost

\* C27: download() removes the earlier local extraction only after the
\* transport tar has arrived, so a download whose transfer fails leaves
\* the earlier extraction as it was when download() was called.
C27_FailedTransferKeepsExtraction ==
    (op = "download" /\ fatal = "transfer") => dl.local_dir = dl.prev

\* C30: every remote file or directory an operation creates is the
\* session directory or lies below it.
C30_CreatesOnlyInSessionDir ==
    [][\A p \in DOMAIN fs :
          (fs[p] = "none" /\ fs'[p] # "none") => Within(p, sisyphus_dir)]_vars

\* C25: build() returns as soon as the command line is launched; a job
\* whose payload has succeeded then creates build.ready, and no
\* build.failed, and ends; a job whose payload, activation or redirect
\* has failed creates build.failed, and no build.ready, and ends.
C25_OneSentinelMatchesOutcome ==
    [][/\ (pc = "b_launch" /\ pc' # pc /\ connection = "open")
              => (pc' = "idle" /\ job_pc' = "activate")
       /\ (job_pc = "touch_ready" /\ job_pc' # job_pc)
              => (job_pc' = "done" /\ fs'[readyfile] = "file" /\ fs'[failedfile] = fs[failedfile])
       /\ (job_pc = "touch_failed" /\ job_pc' # job_pc)
              => (job_pc' = "done" /\ fs'[failedfile] = "file" /\ fs'[readyfile] = fs[readyfile])]_vars

\* C22: once the Host is constructed its attributes are those of the
\* detected type and no step changes them (sisyphus_dir is the constant
\* path of the same name), and the channel it holds, the first one and
\* every reopened one, is to self.user at self.host.
C22_AttributesFixed ==
    /\ [](constructed =>
             /\ self = HostAttrs(IF endpoint.posix THEN LINUX_TYPE ELSE WINDOWS_TYPE)
             /\ chan.user = self.user
             /\ chan.host = self.host)
    /\ [][constructed => (constructed' /\ self' = self)]_vars

\* wait() on a Windows host has reopened its channel and polls again.
C22_Witness ==
    /\ constructed /\ self.type = WINDOWS_TYPE
    /\ op = "wait" /\ pc = "w_status" /\ polls >= 1
    /\ {"close", "sleep", "open"} \subseteq cmds
    /\ connection = "open"
    /\ chan.user = WINDOWS_USER

\* ----------------------------------- Host.prepare, Host.watch_prepare
\* The files prepare() and its background command lines keep in the
\* session directory, by name.
PrepFiles == {"conda.log", "conda.ready", "conda.failed",
              "cuda_driver.log", "cuda_12.3.0.log", "cuda.ready", "cuda.failed"}

\* The session directory's files of that kind, as exists() looks at them.
PrepFs(d) == [n \in PrepFiles |-> IF n \in d.files THEN "file" ELSE "none"]

\* A constructed Host whose session directory holds nothing of an earlier
\* prepare(); the sisyphus environment exists on the host or not.
PrepInit ==
    /\ \E t \in {LINUX_TYPE, WINDOWS_TYPE} : HostReady(t, SessionOnly)
    /\ rm_path = <<>>
    /\ pj = NoJoin
    /\ dl = NoDownload
    /\ wb = Unwatched
    /\ second = NoSecond
    /\ \E env \in BOOLEAN :
          pp = [step |-> "none", env |-> env, files |-> {}, conda |-> "none", cuda |-> "none",
                launched |-> {}, error |-> FALSE]

PrepFrame == <<HostFrame, pj, dl, wb, rm_path, fs, second>>

\* prepare() is entered: self.mkdir(self.sisyphus_dir) comes first.  The
\* model follows one environment creation and one CUDA installation.
CallPrepare ==
    /\ pc = "idle"
    /\ pp.conda \in {"none", "done"} /\ pp.cuda \in {"none", "done"}
    /\ op' = "prepare"
    /\ mk_path' = sisyphus_dir
    /\ ret' = "pp_envlist"
    /\ pc' = "mk_exists"
    /\ cmds' = {}
    /\ pp' = [pp EXCEPT !.launched = {}]
    /\ UNCHANGED <<endpoint, self, constructed, job_pc, Results, clean_launch, mk_made,
                   pj, dl, wb, rm_path, fs, chan, connection, fatal, second>>

\* A mutant of PrepareAfterList: the environment is created whatever the list says.
PrepareAlwaysCreates(found) == "pp_create"

\* "if found": the touch of conda.ready, or the launch of the creation.
PrepareAfterList(found) == IF found THEN "pp_touch" ELSE "pp_create"

\* Where prepare() goes after the environment: the CUDA checks on Windows.
PrepareCuda == IF self.type = WINDOWS_TYPE THEN "pp_cuda_driver" ELSE "idle"

\* r = self.run("conda env list") and the search for a "sisyphus " line.
PrepEnvList ==
    /\ pc = "pp_envlist"
    /\ cmds' = cmds \cup {"conda env list"}
    /\ \/ /\ connection = "open"
          /\ \E ok \in BOOLEAN :
                IF ok THEN pc' = PrepareAfterList(pp.env) /\ fatal' = fatal
                ELSE Exit("command")
       \/ /\ connection = "dead"
          /\ Exit("transport")
    /\ UNCHANGED <<PrepFrame, chan, connection, op, pp>>

\* self.run(f"{touch}ready"): conda.ready is created again.
PrepTouch ==
    /\ pc = "pp_touch"
    /\ cmds' = cmds \cup {"touch"}
    /\ \/ /\ connection = "open"
          /\ \E ok \in BOOLEAN :
                IF ok
                THEN /\ pp' = [pp EXCEPT !.files = @ \cup {"conda.ready"}]
                     /\ pc' = PrepareCuda
                     /\ fatal' = fatal
                ELSE pp' = pp /\ Exit("command")
       \/ /\ connection = "dead"
          /\ pp' = pp
          /\ Exit("transport")
    /\ UNCHANGED <<PrepFrame, chan, connection, op>>

\* self.run_async("conda create ... > conda.log 2>&1 && touch ready || touch failed").
PrepCreate ==
    /\ pc = "pp_create"
    /\ cmds' = cmds \cup {"run_async"}
    /\ \/ /\ connection = "open"
          /\ pp' = [pp EXCEPT !.conda = "payload", !.launched = @ \cup {"conda"}]
          /\ chan' = run_async(chan, "conda")
          /\ pc' = PrepareCuda
          /\ fatal' = fatal
       \/ /\ connection = "dead"
          /\ Exit("transport")
          /\ UNCHANGED <<pp, chan>>
    /\ UNCHANGED <<PrepFrame, connection, op>>

\* "if self.exists(cuda_driver.log) or self.exists(cuda_12.3.0.log)":
\* a log that exists ends prepare(); the second is looked at when the
\* first is missing, and the installation is launched when both are.
PrepareAfterLog(log, r) ==
    IF r = "Yes" THEN "idle"
    ELSE IF log = "cuda_driver.log" THEN "pp_cuda_toolkit"
    ELSE "pp_cuda_launch"

\* The log an exists() of the CUDA check is about.
CudaLog == IF pc = "pp_cuda_driver" THEN "cuda_driver.log" ELSE "cuda_12.3.0.log"

\* One exists() of the CUDA check.
PrepCudaLog ==
    /\ pc \in {"pp_cuda_driver", "pp_cuda_toolkit"}
    /\ cmds' = cmds \cup {"exists"}
    /\ \/ /\ connection = "open"
          /\ pc' = PrepareAfterLog(CudaLog, ExistsCmd(self.type, PrepFs(pp), CudaLog))
          /\ fatal' = fatal
       \/ /\ connection = "dead"
          /\ Exit("transport")
    /\ UNCHANGED <<PrepFrame, chan, connection, op, pp>>

\* self.run_async("install_cuda_driver > log && install_cuda_12.3.0 > log && touch ready || touch failed").
PrepCudaLaunch ==
    /\ pc = "pp_cuda_launch"
    /\ cmds' = cmds \cup {"run_async"}
    /\ \/ /\ connection = "open"
          /\ pp' = [pp EXCEPT !.cuda = "driver", !.launched = @ \cup {"cuda"}]
          /\ chan' = run_async(chan, "cuda")
          /\ pc' = "idle"
          /\ fatal' = fatal
       \/ /\ connection = "dead"
          /\ Exit("transport")
          /\ UNCHANGED <<pp, chan>>
    /\ UNCHANGED <<PrepFrame, connection, op>>

Prepare == PrepEnvList \/ PrepTouch \/ PrepCreate \/ PrepCudaLog \/ PrepCudaLaunch

\* ------------------------------- the command lines prepare() launches
\* "conda create ... > conda.log 2>&1": the shell creates the log, the
\* environment is there when the command succeeds.
CondaCreate ==
    /\ pp.conda = "payload"
    /\ \E ok \in BOOLEAN :
          pp' = [pp EXCEPT !.files = @ \cup {"conda.log"}, !.env = @ \/ ok,
                           !.conda = JobNext("payload", ok)]
    /\ UNCHANGED <<PrepFrame, chan, connection, pc, op, cmds, fatal>>

\* "touch conda.ready" or "touch conda.failed" creates the sentinel, or
\* fails and creates nothing.
CondaTouch ==
    /\ pp.conda \in {"touch_ready", "touch_failed"}
    /\ \E ok \in BOOLEAN :
          pp' = [pp EXCEPT !.files = IF ~ok THEN @
                                     ELSE IF pp.conda = "touch_ready" THEN @ \cup {"conda.ready"}
                                     ELSE @ \cup {"conda.failed"},
                           !.conda = JobNext(pp.conda, ok)]
    /\ UNCHANGED <<PrepFrame, chan, connection, pc, op, cmds, fatal>>

\* "a && b && touch ready || touch failed" for the two installers: the
\* step that follows an installer that succeeded or failed.
CudaNext(step, ok) ==
    IF ~ok THEN "touch_failed"
    ELSE IF step = "driver" THEN "toolkit"
    ELSE "touch_ready"

\* One installer runs with its output redirected to its log.
CudaInstall ==
    /\ pp.cuda \in {"driver", "toolkit"}
    /\ \E ok \in BOOLEAN :
          pp' = [pp EXCEPT !.files = @ \cup {IF pp.cuda = "driver" THEN "cuda_driver.log"
                                             ELSE "cuda_12.3.0.log"},
                           !.cuda = CudaNext(pp.cuda, ok)]
    /\ UNCHANGED <<PrepFrame, chan, connection, pc, op, cmds, fatal>>

\* "touch cuda.ready" or "touch cuda.failed".
CudaTouch ==
    /\ pp.cuda \in {"touch_ready", "touch_failed"}
    /\ \E ok \in BOOLEAN :
          pp' = [pp EXCEPT !.files = IF ~ok THEN @
                                     ELSE IF pp.cuda = "touch_ready" THEN @ \cup {"cuda.ready"}
                                     ELSE @ \cup {"cuda.failed"},
                           !.cuda = JobNext(pp.cuda, ok)]
    /\ UNCHANGED <<PrepFrame, chan, connection, pc, op, cmds, fatal>>

PrepJobs == CondaCreate \/ CondaTouch \/ CudaInstall \/ CudaTouch

\* ------------------------------------------------ Host.watch_prepare
CallWatchPrepare ==
    /\ pc = "idle"
    /\ op' = "watch_prepare"
    /\ pc' = "wp_conda"
    /\ cmds' = {}
    /\ pp' = [pp EXCEPT !.step = "wp_conda", !.error = FALSE]
    /\ UNCHANGED <<PrepFrame, chan, connection, fatal>>

\* What a loop of watch_prepare() waits for.
WpWhat == IF pp.step = "wp_conda" THEN "conda." ELSE "cuda."

\* Where watch_prepare() goes when a loop breaks: the CUDA loop after the
\* conda loop on Windows, the end otherwise.
WpBreak ==
    IF pp.step = "wp_conda" /\ self.type = WINDOWS_TYPE THEN "wp_cuda" ELSE "wp_end"

\* A mutant of WpAfterFailed: the loop sleeps on the channel it has.
WpSleepsOnly(r) == IF r = "Yes" THEN WpBreak ELSE "w_sleep"

\* "elif self.exists(....failed)": the break with error set, or on to
\* reset_connection(10) / reset_connection(30).
WpAfterFailed(r) == IF r = "Yes" THEN WpBreak ELSE "w_close"

\* "if self.exists(....ready)" of either loop: the break, or the second check.
WpReady ==
    /\ pc \in {"wp_conda", "wp_cuda"}
    /\ pc = pp.step
    /\ cmds' = cmds \cup {"exists"}
    /\ \/ /\ connection = "open"
          /\ IF ExistsCmd(self.type, PrepFs(pp), WpWhat \o "ready") = "Yes"
             THEN pc' = WpBreak /\ pp' = [pp EXCEPT !.step = WpBreak]
             ELSE pc' = "wp_failed" /\ pp' = pp
          /\ fatal' = fatal
       \/ /\ connection = "dead"
          /\ Exit("transport")
          /\ pp' = pp
    /\ UNCHANGED <<PrepFrame, chan, connection, op>>

\* "elif self.exists(....failed)" of either loop.
WpFailed ==
    /\ pc = "wp_failed"
    /\ cmds' = cmds \cup {"exists"}
    /\ \/ /\ connection = "open"
          /\ LET r == ExistsCmd(self.type, PrepFs(pp), WpWhat \o "failed") IN
                /\ pc' = WpAfterFailed(r)
                /\ pp' = IF r = "Yes" THEN [pp EXCEPT !.error = TRUE, !.step = WpBreak] ELSE pp
          /\ fatal' = fatal
       \/ /\ connection = "dead"
          /\ Exit("transport")
          /\ pp' = pp
    /\ UNCHANGED <<PrepFrame, chan, connection, op>>

\* "if error: raise SystemExit(1)", else the last reset_connection().
WpEnd ==
    /\ pc = "wp_end"
    /\ IF pp.error
       THEN Exit("prepare_failed") /\ UNCHANGED <<chan, connection>>
       ELSE /\ pc' = "idle"
            /\ fatal' = fatal
            /\ connection' = "open"
            /\ chan' = reset_connection(chan)
    /\ UNCHANGED <<PrepFrame, op, cmds, pp>>

WatchPrepare == WpReady \/ WpFailed \/ WpEnd

\* The session the tool's commands make of these operations: prepare()
\* checks the host and launches what is missing, the launched command
\* lines run, watch_prepare() follows them, build() launches the job,
\* wait() and watch_build() follow it.
SessionNext ==
    \/ CallPrepare \/ Mkdir \/ Prepare \/ PrepJobs
    \/ CallWatchPrepare \/ WatchPrepare
    \/ CallBuild \/ BuildLaunch \/ Job
    \/ CallWait \/ WaitStatus \/ CallWatch \/ Watch
    \/ Reset \/ TransportDies

SpecSession == PrepInit /\ [][SessionNext]_vars

\* The host is prepared: the environment exists and, on Windows, the
\* CUDA installation has ended with cuda.ready.
Prepared == pp.env /\ (self.type = WINDOWS_TYPE => "cuda.ready" \in pp.files)

\* C21: prepare() launches the environment creation only when the
\* environment is missing; when it exists prepare() only creates
\* conda.ready again; the CUDA installation is launched only on Windows
\* with neither cuda_driver.log nor cuda_12.3.0.log present; on a
\* prepared host no step launches a background command line.
C21_PrepareLaunchesOnlyWhatIsMissing ==
    [][/\ (pc = "pp_envlist" /\ pc' \notin {pc, "exit"})
              => (pc' = (IF pp.env THEN "pp_touch" ELSE "pp_create"))
       /\ ("conda" \in pp'.launched \ pp.launched) => ~pp.env
       /\ (pc = "pp_touch" /\ pc' \notin {pc, "exit"})
              => /\ pp' = [pp EXCEPT !.files = @ \cup {"conda.ready"}]
                 /\ chan' = chan
       /\ ("cuda" \in pp'.launched \ pp.launched)
              => /\ self.type = WINDOWS_TYPE
                 /\ pp.files \cap {"cuda_driver.log", "cuda_12.3.0.log"} = {}
       /\ (Prepared /\ op' = "prepare" /\ pc' # pc)
              => (pp'.launched \subseteq pp.launched /\ chan'.async = chan.async)]_vars

\* prepare() has been repeated on a Windows host that an earlier
\* prepare() made ready, and has returned without launching anything.
C21_Witness ==
    /\ op = "prepare" /\ pc = "idle"
    /\ self.type = WINDOWS_TYPE /\ Prepared
    /\ pp.conda = "done" /\ pp.cuda = "done"
    /\ {"conda env list", "touch", "exists"} \subseteq cmds
    /\ pp.launched = {}

\* The first step of a tick of the three polling loops.
Ticks == {"w_status", "wb_read", "wp_conda", "wp_cuda"}

\* C23: in wait(), watch_build() and watch_prepare() a sleep is taken
\* only with the channel closed and is followed by a new channel; a tick
\* starts from the call, from the new channel after a sleep, or (the CUDA
\* loop) from the end of the conda loop; no channel is ever open across a
\* sleep, so no command runs on one.
C23_PollsOnFreshChannel ==
    /\ [](/\ pc = "w_sleep" => connection = "closed"
          /\ ~chan.slept
          /\ (pc \in Ticks \cup {"wb_ready", "wb_failed", "wp_failed"}) => connection # "closed")
    /\ [][/\ (pc = "w_sleep" /\ pc' # pc) => pc' = "w_open"
          /\ (pc = "w_open" /\ pc' # pc)
                => (pc' \in Ticks /\ connection' = "open" /\ chan'.open = 1 /\ chan'.async = {})
          /\ (pc' \in Ticks /\ pc' # pc)
                => \/ pc \in {"idle", "w_open"}
                   \/ (pc' = "wp_cuda" /\ pc \in {"wp_conda", "wp_failed"} /\ pp.step = "wp_conda")]_vars

\* watch_prepare() on a Windows host polls for CUDA again, on the channel
\* it has opened after its sleep.
C23_Witness ==
    /\ op = "watch_prepare" /\ pc = "wp_cuda"
    /\ {"close", "sleep", "open"} \subseteq cmds
    /\ pp.cuda \in {"driver", "toolkit"}
    /\ connection = "open" /\ chan.open = 1 /\ ~chan.slept

\* The positions of the invocation at which a remote command is issued.
Commands == {"conda_init", "mk_exists", "mk_isdir", "mk_create", "st_ls", "w_status", "b_launch",
             "pp_envlist", "pp_touch", "pp_create", "pp_cuda_driver", "pp_cuda_toolkit",
             "pp_cuda_launch", "wp_conda", "wp_cuda", "wp_failed", "wb_read", "wb_ready",
             "wb_failed"}

\* C29: the Host never has more than one channel open: a failed probe
\* of the detection has closed its channel before the next probe opens
\* one, reset_connection closes the channel before it opens the next,
\* and a command is only ever issued on the one channel that is open
\* (never on a closed one).
C29_OneChannel ==
    /\ [](/\ chan.open <= 1
          /\ chan.open = (IF connection \in {"open", "dead"} THEN 1 ELSE 0)
          /\ pc \in Commands => connection \in {"open", "dead"})
    /\ [][/\ (pc = "init" /\ pc' = "test_windows") => chan'.open = 0
          /\ (pc = "w_close" /\ pc' # pc) => (connection' = "closed" /\ chan'.open = 0)
          /\ (chan'.open > chan.open) => chan.open = 0]_vars

\* wait() has closed its channel and opened the next one, the only one open.
C29_Witness ==
    /\ op = "wait" /\ pc = "w_status"
    /\ {"close", "open"} \subseteq cmds
    /\ connection = "open"
    /\ chan.open = 1

\* The launched command lines that are still running.
Running ==
    {j \in {"build"} : job_pc \notin {"none", "done"}}
        \cup {j \in {"conda"} : pp.conda \notin {"none", "done"}}
        \cup {j \in {"cuda"} : pp.cuda \notin {"none", "done"}}

\* The command lines in flight on the current channel: those launched on
\* it by run_async that have not ended.
InFlight == IF connection = "closed" THEN {} ELSE chan.async \cap Running

\* C24: the commands of one Host are strictly sequential: no two command
\* lines are in flight on the channel at once, no command is issued while
\* a launched command line is in flight on the channel, and the channel
\* is not closed under one.
C24_CommandsSequential ==
    /\ [](Cardinality(InFlight) <= 1)
    /\ [][/\ (pc \in Commands /\ pc' # pc) => InFlight = {}
          /\ (pc = "w_close" /\ pc' # pc) => InFlight = {}]_vars

\* ------------------------------ a second invocation of prepare_and_build
\* A constructed Host and the package's job directory unpacked by the
\* first invocation, which is about to call build(); no second invocation
\* yet.
TwoInit ==
    /\ \E t \in {LINUX_TYPE, WINDOWS_TYPE} :
          HostReady(t, [p \in Paths |-> IF p \in {sisyphus_dir, workdir} THEN "dir" ELSE "none"])
    /\ rm_path = <<>>
    /\ pp = NoPrepare
    /\ pj = NoJoin
    /\ dl = NoDownload
    /\ wb = NoWatch
    /\ second = NoSecond

\* What a step of the second invocation and of its job leaves alone: the
\* first invocation, its channel and its job.
SecondFrame == <<endpoint, self, constructed, connection, job_pc, pc, op, mk_path, ret, cmds,
                 Results, fatal, clean_launch, mk_made, rm_path, pj, dl, wb, chan, pp>>

\* A mutant of SecondCall: the second invocation waits for a running job to end.
SecondCallWaits ==
    /\ second.pc = "none"
    /\ job_pc \in {"none", "done"}
    /\ second' = [second EXCEPT !.pc = "rm_exists"]
    /\ UNCHANGED <<SecondFrame, fs>>

\* Another process runs prepare_and_build for the same package on the
\* same host, at any time; prepare() and the upload leave the job
\* directory alone, host.rm(workdir) is entered.
SecondCall ==
    /\ second.pc = "none"
    /\ second' = [second EXCEPT !.pc = "rm_exists"]
    /\ UNCHANGED <<SecondFrame, fs>>

\* host.rm(workdir): exists(), and isdir() on Windows.
SecondRmChecks ==
    /\ second.pc \in {"rm_exists", "rm_isdir"}
    /\ LET next == IF second.pc = "rm_exists"
                   THEN RmAfterExists(self.type, ExistsCmd(self.type, fs, workdir))
                   ELSE RmAfterIsdir(IsdirCmd(self.type, fs, workdir))
       IN  second' = [second EXCEPT !.pc = IF next = "return" THEN "untar" ELSE next]
    /\ UNCHANGED <<SecondFrame, fs>>

\* host.rm(workdir): the delete command.
SecondRmDelete ==
    /\ second.pc \in DeleteCmds
    /\ LET o == DeleteCmd(second.pc, fs, workdir) IN
          /\ fs' = o.fs
          /\ second' = [second EXCEPT !.pc = IF o.ok THEN "untar" ELSE "exit"]
    /\ UNCHANGED SecondFrame

\* mkdir(path) of the second invocation, for untar() and for build():
\* exists(), isdir() and the create command, taken together.
SecondMkdir(f, p) ==
    IF f[p] = "dir" THEN [ok |-> TRUE, fs |-> f]
    ELSE IF f[p] = "file" THEN [ok |-> FALSE, fs |-> f]
    ELSE MkdirCmd(self.type, f, p)

\* host.untar(tarfile, workdir) makes the job directory and unpacks the
\* data; host.build(workdir) makes the build directory.
SecondMakes ==
    /\ second.pc \in {"untar", "mkdir"}
    /\ LET o == SecondMkdir(fs, IF second.pc = "untar" THEN workdir ELSE builddir) IN
          /\ fs' = o.fs
          /\ second' = [second EXCEPT !.pc = IF ~o.ok THEN "exit"
                                             ELSE IF second.pc = "untar" THEN "mkdir"
                                             ELSE "launch"]
    /\ UNCHANGED SecondFrame

\* host.build(workdir): run_async of the second job's command line.
SecondLaunch ==
    /\ second.pc = "launch"
    /\ second' = [pc |-> "done", job |-> "activate"]
    /\ UNCHANGED <<SecondFrame, fs>>

\* The file a step of the command line creates.
JobFile(step) ==
    CASE step = "redirect" -> logfile
      [] step = "touch_ready" -> readyfile
      [] step = "touch_failed" -> failedfile

\* A step of the second job's command line, which is the first's: the
\* activation and the payload succeed or fail, the redirect creates the
\* log when it can, a touch creates its sentinel or fails.
SecondJob ==
    /\ second.job \notin {"none", "done"}
    /\ \E ok \in BOOLEAN :
          LET writes == second.job \in {"redirect", "touch_ready", "touch_failed"} IN
             /\ writes => (ok => CanCreate(fs, JobFile(second.job)))
             /\ second.job = "redirect" => (ok = CanCreate(fs, logfile))
             /\ fs' = IF writes /\ ok THEN [fs EXCEPT ![JobFile(second.job)] = "file"] ELSE fs
             /\ second' = [second EXCEPT !.job = JobNext(second.job, ok)]
    /\ UNCHANGED SecondFrame

Second == SecondCall \/ SecondRmChecks \/ SecondRmDelete \/ SecondMakes \/ SecondLaunch

\* Two invocations on one job directory: the first builds and reads the
\* status, the second goes through prepare_and_build, both jobs run.
TwoNext ==
    \/ CallBuild \/ Mkdir \/ BuildLaunch \/ Job
    \/ CallStatus \/ StatusLs
    \/ Second \/ SecondJob

SpecTwo == TwoInit /\ [][TwoNext]_vars

\* C28: nothing holds the second invocation back: it can start in every
\* state and take its next step in every state, whatever the first
\* invocation and its job are doing, and its delete command leaves
\* nothing of the job directory, markers of the first job included.
C28_NotCoordinated ==
    /\ [](/\ second.pc = "none" => ENABLED SecondCall
          /\ second.pc \notin {"none", "done", "exit"} => ENABLED Second)
    /\ [][(second.pc \in DeleteCmds /\ second'.pc = "untar")
             => \A p \in Paths : Within(p, workdir) => fs'[p] = "none"]_vars

\* Both jobs have ended, the first launched into a job directory
\* without markers and the second after its own rm(workdir), and the job
\* directory holds build.ready and build.failed.
C28_Witness ==
    /\ clean_launch /\ job_pc = "done"
    /\ second.pc = "done" /\ second.job = "done"
    /\ fs[readyfile] = "file" /\ fs[failedfile] = "file"

\* C35: whatever prepare() calls and environment creations have taken
\* place, conda.ready and conda.failed are never both present in the
\* session directory.
C35_CondaSentinelsExclusive ==
    ~({"conda.ready", "conda.failed"} \subseteq pp.files)

\* C34: when watch_build has returned on build.ready, what it has
\* emitted is the log, every line once and in order.
C34_WatchEmitsWholeLog ==
    (op = "watch" /\ pc = "idle") => wb.emitted = Lines(1, wb.log)

\* C33: when build() of a prepare_and_build launches its job, after
\* rm(workdir) and untar(), the job directory holds no sentinel of an
\* earlier build: with the earlier build.log removed, there is no
\* build.ready for a wait that follows to return on.
C33_LaunchesOnBlankSlate ==
    (second.pc = "launch" /\ fs[logfile] = "none") => fs[readyfile] = "none"

\* The directory names a path string goes through: what lies between its
\* separators, the name in progress being cur.
RECURSIVE Components(_, _, _)
Components(sep, s, cur) ==
    LET ended == IF cur = <<>> THEN <<>> ELSE <<cur>> IN
       IF s = <<>> THEN ended
       ELSE IF s[1] = sep THEN ended \o Components(sep, Tail(s), <<>>)
       ELSE Components(sep, Tail(s), Append(cur, s[1]))

\* The path string p names a place strictly below the one q names.
StrictlyBelow(sep, p, q) ==
    LET P == Components(sep, p, <<>>)
        Q == Components(sep, q, <<>>)
    IN  Len(Q) < Len(P) /\ SubSeq(P, 1, Len(Q)) = Q

GetPath(p) == [i \in 1..Len(p) |-> IF p[i] = "\\" THEN "/" ELSE p[i]]

NameInPath(pkg) == GetPath(path_join(self.separator, <<pkg>>))

====
